---- MODULE Spec2Model ----
(***************************************************************************)
(* Temporal Risk Aggregation Engine (recoverly_backend, social_service).   *)
(*                                                                         *)
(* Probabilities are integers in hundredths (0.70 is 70).  A mean is kept  *)
(* exactly, as the record [sum, n] of the values summed and their number,  *)
(* and compared with a threshold by cross-multiplication.  Time is counted *)
(* in ticks of half a day, so that timedelta.days (whole days, rounded     *)
(* down) differs from the exact age of a message.                          *)
(***************************************************************************)
EXTENDS Integers, Sequences, FiniteSets, TLC

VARIABLES
    fin,                  \* arguments of the pure function under evaluation
    fout,                 \* what it returned (Pending before the call)
    now,                  \* the clock, datetime.now() / CURRENT_TIMESTAMP
    message_predictions,  \* table message_predictions
    message_seq,          \* next value of its SERIAL id
    user_risk_profiles,   \* table user_risk_profiles, by user_id
    call,                 \* the last engine call and what it returned
    txn,                  \* per worker: a recomputation in progress
    interventions,        \* table interventions and the next value of its SERIAL id
    pool,                 \* connections of the pool that are checked out
    analyzer,             \* _analyzer_instance and the RiskAnalyzer objects built
    history               \* st.session_state.history of the demo app

decVars == <<fin, fout>>

engVars == <<now, message_predictions, message_seq, user_risk_profiles, call, txn>>

extVars == <<interventions, pool, analyzer, history>>

vars == <<fin, fout, now, message_predictions, message_seq, user_risk_profiles, call, txn, interventions, pool, analyzer, history>>

\* no call made yet / no value
Pending == [pending |-> TRUE]

\* no row / no message
Absent == [absent |-> TRUE]

\* ------------------------------------------------------------------------
\* Labels, trends, reasons
\* ------------------------------------------------------------------------
Labels == {"HIGH_RISK", "MODERATE_RISK", "ISOLATION_ONLY", "LOW_RISK"}

Trends == {"improving", "stable", "declining", "rapid_decline"}

\* ------------------------------------------------------------------------
\* Thresholds: a dict, i.e. a function on the keys that are present
\* ------------------------------------------------------------------------
UserKeys == {"T_high", "T_mid", "T_iso", "T_iso_escalate"}

MessageKeys == UserKeys \cup {"T_relapse", "T_craving"}

\* dict.get(key, default)
Get(d, key, default) == IF key \in DOMAIN d THEN d[key] ELSE default

\* defaults written into apply_final_risk_decision
DefaultTHigh == 70
DefaultTIsoEscalate == 70
DefaultTIso == 90
DefaultTMid == 30

\* the other numbers of the user-level rule ladder
HighCountMin == 3
SilentDays == 5
MildRisk == 20
IsoOnlyRiskBelow == 30

\* a mean [sum, n] compared with a number in hundredths
MeanGE(m, t) == m.sum >= t * m.n
MeanGT(m, t) == m.sum > t * m.n
MeanLT(m, t) == m.sum < t * m.n

\* ------------------------------------------------------------------------
\* Time: one tick is half a day
\* ------------------------------------------------------------------------
\* timedelta(days=d)
TimeDelta(d) == d * 2

\* timedelta.days: whole days, rounded down
DaysOf(delta) == delta \div 2

\* ------------------------------------------------------------------------
\* Reductions over a message list
\* ------------------------------------------------------------------------
RECURSIVE SumField(_, _)
SumField(messages, field) ==
    IF messages = <<>> THEN 0
    ELSE Head(messages)[field] + SumField(Tail(messages), field)

RECURSIVE MaxField(_, _)
MaxField(messages, field) ==
    IF Len(messages) = 1 THEN Head(messages)[field]
    ELSE LET rest == MaxField(Tail(messages), field)
         IN  IF Head(messages)[field] >= rest THEN Head(messages)[field] ELSE rest

\* np.mean, kept exact
Mean(messages, field) == [sum |-> SumField(messages, field), n |-> Len(messages)]

\* ------------------------------------------------------------------------
\* compute_window_metrics
\* ------------------------------------------------------------------------
HighRiskScoreMin == 70
HighRiskProbMin == 50
ToxicMin == 70

ZeroMetrics ==
    [avg_risk_score |-> [sum |-> 0, n |-> 1], max_risk_score |-> 0,
     avg_isolation |-> [sum |-> 0, n |-> 1], high_risk_count |-> 0,
     toxic_incidents |-> 0, message_count |-> 0]

\* mutant: the window is cut on whole days of age, as detect_trend cuts its own
Windowed_whole_days(messages, window_days, t) ==
    SelectSeq(messages, LAMBDA m : DaysOf(t - m.timestamp) <= window_days)

\* cutoff = now - timedelta(days=window_days); the messages at or after it
Windowed(messages, window_days, t) ==
    LET cutoff == t - TimeDelta(window_days)
    IN  SelectSeq(messages, LAMBDA m : m.timestamp >= cutoff)

\* mutant: p_relapse is not looked at
IsHighRisk_ignores_relapse(m) ==
    \/ m.risk_score >= HighRiskScoreMin
    \/ m.p_craving >= HighRiskProbMin

\* the condition under which a message counts into high_risk_count
IsHighRisk(m) ==
    \/ m.risk_score >= HighRiskScoreMin
    \/ m.p_relapse >= HighRiskProbMin
    \/ m.p_craving >= HighRiskProbMin

\* the condition under which a message counts into toxic_incidents
IsToxic(m) == m.p_toxic >= ToxicMin

\* the record built from a non-empty window
WindowAggregate(windowed) ==
    [avg_risk_score  |-> Mean(windowed, "risk_score"),
     max_risk_score  |-> MaxField(windowed, "risk_score"),
     avg_isolation   |-> Mean(windowed, "p_isolation"),
     high_risk_count |-> Len(SelectSeq(windowed, IsHighRisk)),
     toxic_incidents |-> Len(SelectSeq(windowed, IsToxic)),
     message_count   |-> Len(windowed)]

\* mutant: no early return for a window without messages, the means of an
\* empty list (nan) are returned
compute_window_metrics_nan_on_empty(messages, window_days, t) ==
    IF messages = <<>> THEN ZeroMetrics
    ELSE LET windowed == Windowed(messages, window_days, t)
         IN  IF windowed = <<>>
             THEN [ZeroMetrics EXCEPT !.avg_risk_score = [sum |-> 0, n |-> 0],
                                      !.avg_isolation = [sum |-> 0, n |-> 0]]
             ELSE WindowAggregate(windowed)

compute_window_metrics(messages, window_days, t) ==
    IF messages = <<>> THEN ZeroMetrics
    ELSE LET windowed == Windowed(messages, window_days, t)
         IN  IF windowed = <<>> THEN ZeroMetrics
             ELSE WindowAggregate(windowed)

\* ------------------------------------------------------------------------
\* compute_engagement_metrics
\* ------------------------------------------------------------------------
EngagementDays == 7
NeverMessaged == 999

\* None for a timestamp
NoTimestamp == 0 - 1

\* mutant: 0 days for a user without a buddy message
DaysSinceLastBuddyMsg_zero_without(buddy_msgs, t) ==
    IF buddy_msgs # <<>>
    THEN DaysOf(t - MaxField(buddy_msgs, "timestamp"))
    ELSE 0

\* days since the last buddy message, 999 when there is none
DaysSinceLastBuddyMsg(buddy_msgs, t) ==
    IF buddy_msgs # <<>>
    THEN DaysOf(t - MaxField(buddy_msgs, "timestamp"))
    ELSE NeverMessaged

compute_engagement_metrics(user_id, messages, t) ==
    LET messages_7d    == SelectSeq(messages,
                              LAMBDA m : DaysOf(t - m.timestamp) <= EngagementDays)
        buddy_msgs     == SelectSeq(messages_7d,
                              LAMBDA m : m.conversation_type = "buddy")
        counselor_msgs == SelectSeq(messages_7d,
                              LAMBDA m : m.conversation_type = "counselor")
    IN  [total_messages_7d     |-> Len(messages_7d),
         buddy_messages_7d     |-> Len(buddy_msgs),
         counselor_messages_7d |-> Len(counselor_msgs),
         last_message_time     |->
             IF messages # <<>> THEN MaxField(messages, "timestamp") ELSE NoTimestamp,
         days_since_last_buddy_msg |-> DaysSinceLastBuddyMsg(buddy_msgs, t)]

\* ------------------------------------------------------------------------
\* apply_final_risk_decision: the user-level rule ladder
\* ------------------------------------------------------------------------
Decision(label, reason) == [label |-> label, reasons |-> <<reason>>]

\* the ladder proper, on the extracted values
UserLadder(short_max_risk, short_avg_risk, short_high_count, short_avg_iso, days_since_last_buddy_msg, risk_trend, thresholds) ==
    IF short_max_risk >= Get(thresholds, "T_high", DefaultTHigh)
    THEN Decision("HIGH_RISK", "Max risk score in last 7 days")
    ELSE IF short_high_count >= HighCountMin
    THEN Decision("HIGH_RISK", "Multiple high-risk messages in short window")
    ELSE IF risk_trend = "rapid_decline"
    THEN Decision("HIGH_RISK", "Detected rapid decline in user state")
    ELSE IF /\ MeanGE(short_avg_risk, Get(thresholds, "T_iso_escalate", DefaultTIsoEscalate))
            /\ MeanGE(short_avg_iso, Get(thresholds, "T_iso", DefaultTIso))
    THEN Decision("HIGH_RISK", "Isolation escalating moderate base risk")
    ELSE IF MeanGE(short_avg_risk, Get(thresholds, "T_mid", DefaultTMid))
    THEN Decision("MODERATE_RISK", "Average risk score elevated")
    ELSE IF risk_trend = "declining"
    THEN Decision("MODERATE_RISK", "Risk trend is declining (worsening)")
    ELSE IF /\ days_since_last_buddy_msg > SilentDays
            /\ MeanGT(short_avg_risk, MildRisk)
    THEN Decision("MODERATE_RISK", "Social withdrawal + mild risk")
    ELSE IF /\ MeanGE(short_avg_iso, Get(thresholds, "T_iso", DefaultTIso))
            /\ MeanLT(short_avg_risk, IsoOnlyRiskBelow)
    THEN Decision("ISOLATION_ONLY", "High isolation without addiction risk")
    ELSE Decision("LOW_RISK", "No significant risk indicators")

\* mutant: rule 1 reads the 30-day maximum instead of the 7-day one
apply_final_risk_decision_medium_max(short_metrics, medium_metrics, engagement, risk_trend, isolation_trend, thresholds) ==
    UserLadder(medium_metrics.max_risk_score, short_metrics.avg_risk_score,
               short_metrics.high_risk_count, short_metrics.avg_isolation,
               engagement.days_since_last_buddy_msg, risk_trend, thresholds)

\* mutant: the reasons list is returned empty
apply_final_risk_decision_no_reasons(short_metrics, medium_metrics, engagement, risk_trend, isolation_trend, thresholds) ==
    [UserLadder(short_metrics.max_risk_score, short_metrics.avg_risk_score,
                short_metrics.high_risk_count, short_metrics.avg_isolation,
                engagement.days_since_last_buddy_msg, risk_trend, thresholds)
        EXCEPT !.reasons = <<>>]

\* mutant: toxic incidents are counted as high-risk messages
apply_final_risk_decision_counts_toxic(short_metrics, medium_metrics, engagement, risk_trend, isolation_trend, thresholds) ==
    UserLadder(short_metrics.max_risk_score, short_metrics.avg_risk_score,
               short_metrics.high_risk_count + short_metrics.toxic_incidents,
               short_metrics.avg_isolation,
               engagement.days_since_last_buddy_msg, risk_trend, thresholds)

apply_final_risk_decision(short_metrics, medium_metrics, engagement, risk_trend, isolation_trend, thresholds) ==
    UserLadder(short_metrics.max_risk_score, short_metrics.avg_risk_score,
               short_metrics.high_risk_count, short_metrics.avg_isolation,
               engagement.days_since_last_buddy_msg, risk_trend, thresholds)

\* ------------------------------------------------------------------------
\* apply_fusion_v2 and toxic_flag: the message-level decision
\* ------------------------------------------------------------------------
Raised(e) == [raised |-> e]

IsDecision(r) == "label" \in DOMAIN r

FusionLadder(risk_score, p_relapse, p_craving, p_isolation, T_relapse, T_craving, T_high, T_mid, T_iso, T_iso_escalate) ==
    IF (p_relapse >= T_relapse) \/ (p_craving >= T_craving) \/ (risk_score >= T_high)
    THEN Decision("HIGH_RISK",
                  "Acute addiction-risk trigger (relapse/craving/high risk_score)")
    ELSE IF (risk_score >= T_iso_escalate) /\ (p_isolation >= T_iso)
    THEN Decision("HIGH_RISK",
                  "Isolation escalated risk because risk_score was already high-ish")
    ELSE IF risk_score >= T_mid
    THEN Decision("MODERATE_RISK", "Moderate vulnerability detected (risk_score >= T_mid)")
    ELSE IF p_isolation >= T_iso
    THEN Decision("ISOLATION_ONLY", "High isolation without high addiction-risk")
    ELSE Decision("LOW_RISK", "No thresholds triggered")

\* mutant: T_high and T_mid are read from each other's key
apply_fusion_v2_swapped_keys(risk_score, p_relapse, p_craving, p_isolation, thresholds) ==
    IF MessageKeys \subseteq DOMAIN thresholds
    THEN FusionLadder(risk_score, p_relapse, p_craving, p_isolation,
                      thresholds["T_relapse"], thresholds["T_craving"],
                      thresholds["T_mid"], thresholds["T_high"],
                      thresholds["T_iso"], thresholds["T_iso_escalate"])
    ELSE Raised("KeyError")

\* a missing key makes thresholds[key] raise KeyError before any rule is tried
apply_fusion_v2(risk_score, p_relapse, p_craving, p_isolation, thresholds) ==
    IF MessageKeys \subseteq DOMAIN thresholds
    THEN FusionLadder(risk_score, p_relapse, p_craving, p_isolation,
                      thresholds["T_relapse"], thresholds["T_craving"],
                      thresholds["T_high"], thresholds["T_mid"],
                      thresholds["T_iso"], thresholds["T_iso_escalate"])
    ELSE Raised("KeyError")

toxic_flag(p_toxic, T_toxic) == IF p_toxic >= T_toxic THEN 1 ELSE 0

\* the demo's steps 3 and 4: fuse once, then the toxic flag on its own axis
FuseMessage(risk_score, p_relapse, p_craving, p_isolation, p_toxic, T) ==
    LET fused == apply_fusion_v2(risk_score, p_relapse, p_craving, p_isolation, T)
    IN  IF ~IsDecision(fused) THEN fused
        ELSE IF "T_toxic" \notin DOMAIN T THEN Raised("KeyError")
        ELSE [label |-> fused.label, reasons |-> fused.reasons,
              tox_flag |-> toxic_flag(p_toxic, T["T_toxic"])]

\* ------------------------------------------------------------------------
\* detect_trend
\* ------------------------------------------------------------------------
TrendMinMessages == 5
RecentDays == 7
PreviousDays == 14
SpikeDays == 2
SpikeMin == 80
TrendDelta == 15

\* mutant: the two comparisons with 0.15 are inclusive
TrendOfDelta_inclusive(recent_avg, previous_avg) ==
    LET delta == recent_avg.sum * previous_avg.n - previous_avg.sum * recent_avg.n
        unit  == recent_avg.n * previous_avg.n
    IN  IF delta <= (0 - TrendDelta) * unit THEN "improving"
        ELSE IF delta >= TrendDelta * unit THEN "declining"
        ELSE "stable"

\* delta = recent_avg - previous_avg against -0.15 and 0.15, both sides
\* multiplied by the two message counts
TrendOfDelta(recent_avg, previous_avg) ==
    LET delta == recent_avg.sum * previous_avg.n - previous_avg.sum * recent_avg.n
        unit  == recent_avg.n * previous_avg.n
    IN  IF delta < (0 - TrendDelta) * unit THEN "improving"
        ELSE IF delta > TrendDelta * unit THEN "declining"
        ELSE "stable"

TrendOfWindows(messages, metric, t) ==
    LET recent_7d   == SelectSeq(messages,
                           LAMBDA m : DaysOf(t - m.timestamp) <= RecentDays)
        previous_7d == SelectSeq(messages,
                           LAMBDA m : /\ RecentDays < DaysOf(t - m.timestamp)
                                      /\ DaysOf(t - m.timestamp) <= PreviousDays)
        last_2d     == SelectSeq(messages,
                           LAMBDA m : DaysOf(t - m.timestamp) <= SpikeDays)
    IN  IF recent_7d = <<>> \/ previous_7d = <<>> THEN "stable"
        ELSE IF last_2d # <<>> /\ MaxField(last_2d, metric) >= SpikeMin
        THEN "rapid_decline"
        ELSE TrendOfDelta(Mean(recent_7d, metric), Mean(previous_7d, metric))

\* mutant: the insufficient-data floor is missing
detect_trend_no_floor(messages, metric, t) == TrendOfWindows(messages, metric, t)

detect_trend(messages, metric, t) ==
    IF Len(messages) < TrendMinMessages THEN "stable"
    ELSE TrendOfWindows(messages, metric, t)

\* ------------------------------------------------------------------------
\* Threshold configurations the decisions are exercised with
\* ------------------------------------------------------------------------
ThrFull == [T_relapse |-> 80, T_craving |-> 80, T_high |-> 70, T_mid |-> 30,
            T_iso |-> 90, T_iso_escalate |-> 50, T_toxic |-> 70]

ThrStrict == [T_relapse |-> 90, T_craving |-> 85, T_high |-> 85, T_mid |-> 40,
              T_iso |-> 60, T_iso_escalate |-> 40, T_toxic |-> 90]

\* T_craving absent: complete for the user level, incomplete for the message level
ThrNoCraving == [T_relapse |-> 90, T_high |-> 85, T_mid |-> 40,
                 T_iso |-> 60, T_iso_escalate |-> 40, T_toxic |-> 90]

\* T_high absent
ThrNoHigh == [T_relapse |-> 90, T_craving |-> 85, T_mid |-> 40,
              T_iso |-> 60, T_iso_escalate |-> 40, T_toxic |-> 90]

\* no key the rule ladders read
ThrOnlyToxic == [T_toxic |-> 70]

ThresholdConfigs == {ThrFull, ThrStrict, ThrNoCraving, ThrNoHigh, ThrOnlyToxic}

\* ------------------------------------------------------------------------
\* Prediction vectors (the dict analyze_message hands to the engine) and
\* message rows (the dicts get_user_messages returns)
\* ------------------------------------------------------------------------
PredCalm == [p_craving |-> 5, p_relapse |-> 5, p_negative_mood |-> 10, p_neutral |-> 80,
             p_toxic |-> 0, p_isolation |-> 25, risk_score |-> 10]

PredMild == [p_craving |-> 25, p_relapse |-> 10, p_negative_mood |-> 30, p_neutral |-> 40,
             p_toxic |-> 5, p_isolation |-> 10, risk_score |-> 25]

PredSpike == [p_craving |-> 80, p_relapse |-> 30, p_negative_mood |-> 50, p_neutral |-> 5,
              p_toxic |-> 0, p_isolation |-> 79, risk_score |-> 80]

MessageRow(id, message_text, timestamp, predictions, conversation_type) ==
    [id |-> id, message_text |-> message_text, timestamp |-> timestamp,
     p_craving |-> predictions.p_craving, p_relapse |-> predictions.p_relapse,
     p_negative_mood |-> predictions.p_negative_mood,
     p_neutral |-> predictions.p_neutral, p_toxic |-> predictions.p_toxic,
     p_isolation |-> predictions.p_isolation, risk_score |-> predictions.risk_score,
     conversation_type |-> conversation_type]

\* ORDER BY timestamp ASC
RECURSIVE Ascending(_)
Ascending(S) ==
    IF S = {} THEN <<>>
    ELSE LET first == CHOOSE x \in S : \A y \in S : x <= y
         IN  <<first>> \o Ascending(S \ {first})

\* ------------------------------------------------------------------------
\* The engine: tables, store_message_prediction, get_user_messages,
\* update_user_risk_profile
\* ------------------------------------------------------------------------
Users == {"u1"}

Workers == {"w1", "w2"}

MaxStores == 3
MaxNow == 32

\* the clock moves by 7.5 or by 8 days
ClockSteps == {15, 16}

HistoryDays == 30
ShortWindowDays == 7
MediumWindowDays == 30

EnginePreds == {PredCalm, PredMild, PredSpike}

ConversationTypes == {"buddy", "counselor"}

EngineThresholds == {ThrFull, ThrOnlyToxic}

Idle == [pc |-> "idle"]

\* the service after its startup event: no intervention logged, no connection
\* taken, the analyzer loaded once by the startup's get_analyzer(), no message
\* in the demo's conversation
ExtStart ==
    /\ interventions = [rows |-> {}, next_id |-> 1]
    /\ pool = 0
    /\ analyzer = [instance |-> 1, built |-> 1]
    /\ history = <<>>

EngineStart ==
    /\ ExtStart
    /\ now = 0
    /\ message_predictions = {}
    /\ message_seq = 1
    /\ user_risk_profiles = [u \in Users |-> Absent]
    /\ call = Pending
    /\ txn = [w \in Workers |-> Idle]

\* INSERT ... ON CONFLICT (user_id, timestamp) DO UPDATE ... RETURNING id
StoreMessagePrediction(user_id, message_text, predictions, conversation_type, timestamp) ==
    LET ts       == IF timestamp = NoTimestamp THEN now ELSE timestamp
        conflict == {r \in message_predictions :
                        r.user_id = user_id /\ r.timestamp = ts}
        values   == [p_craving       |-> Get(predictions, "p_craving", 0),
                     p_relapse       |-> Get(predictions, "p_relapse", 0),
                     p_negative_mood |-> Get(predictions, "p_negative_mood", 0),
                     p_neutral       |-> Get(predictions, "p_neutral", 0),
                     p_toxic         |-> Get(predictions, "p_toxic", 0),
                     p_isolation     |-> Get(predictions, "p_isolation", 0),
                     risk_score      |-> Get(predictions, "risk_score", 0)]
        old      == CHOOSE r \in conflict : TRUE
        row      == IF conflict = {}
                    THEN [MessageRow(message_seq, message_text, ts, values,
                                     conversation_type)
                             EXCEPT !.id = message_seq] @@ [user_id |-> user_id]
                    ELSE MessageRow(old.id, message_text, ts, values,
                                    old.conversation_type) @@ [user_id |-> user_id]
    IN  /\ message_seq <= MaxStores
        /\ message_predictions' = (message_predictions \ conflict) \cup {row}
        /\ message_seq' = message_seq + 1
        /\ call' = [op |-> "store_message_prediction", user_id |-> user_id,
                    returned |-> row.id]
        /\ UNCHANGED <<now, user_risk_profiles, txn, decVars, extVars>>

\* mutant: the rows of every user are selected
get_user_messages_of_all_users(table, user_id, days_back, t) ==
    LET rows   == {r \in table : r.timestamp >= t - TimeDelta(days_back)}
        stamps == Ascending({r.timestamp : r \in rows})
    IN  [i \in 1..Len(stamps) |->
            LET r == CHOOSE x \in rows : x.timestamp = stamps[i]
            IN  MessageRow(r.id, r.message_text, r.timestamp, r, r.conversation_type)]

\* SELECT ... WHERE user_id = %s AND timestamp >= now - days_back ORDER BY timestamp
get_user_messages(table, user_id, days_back, t) ==
    LET rows   == {r \in table : /\ r.user_id = user_id
                                 /\ r.timestamp >= t - TimeDelta(days_back)}
        stamps == Ascending({r.timestamp : r \in rows})
    IN  [i \in 1..Len(stamps) |->
            LET r == CHOOSE x \in rows : x.timestamp = stamps[i]
            IN  MessageRow(r.id, r.message_text, r.timestamp, r, r.conversation_type)]

\* windows, trends, engagement and the decision over one message list
ComputeProfile(user_id, messages, thresholds, t) ==
    LET short_metrics   == compute_window_metrics(messages, ShortWindowDays, t)
        medium_metrics  == compute_window_metrics(messages, MediumWindowDays, t)
        risk_trend      == detect_trend(messages, "risk_score", t)
        isolation_trend == detect_trend(messages, "p_isolation", t)
        engagement      == compute_engagement_metrics(user_id, messages, t)
        decision        == apply_final_risk_decision(short_metrics, medium_metrics,
                               engagement, risk_trend, isolation_trend, thresholds)
    IN  [short_metrics |-> short_metrics, medium_metrics |-> medium_metrics,
         risk_trend |-> risk_trend, isolation_trend |-> isolation_trend,
         engagement |-> engagement,
         risk_label |-> decision.label, reasons |-> decision.reasons]

\* mutant: the default profile carries no reason
NoHistoryProfile_no_reason(user_id) ==
    [user_id |-> user_id, current_risk_label |-> "LOW_RISK", message_count |-> 0,
     reasons |-> <<>>]

\* the profile returned when the user has no message in the last 30 days
NoHistoryProfile(user_id) ==
    [user_id |-> user_id, current_risk_label |-> "LOW_RISK", message_count |-> 0,
     reasons |-> <<"No message history">>]

\* mutant: the timestamp is renewed on every recomputation
RiskLabelSince_always_now(existing, risk_label, t) == t

\* same label: keep the stored timestamp; otherwise the time of this computation
RiskLabelSince(existing, risk_label, t) ==
    IF existing # Absent /\ existing.current_risk_label = risk_label
    THEN existing.risk_label_since
    ELSE t

\* the row INSERT ... ON CONFLICT (user_id) DO UPDATE leaves in user_risk_profiles
ProfileRow(user_id, t, c, risk_label_since, login_timestamp) ==
    [user_id |-> user_id, last_updated |-> t,
     short_avg_risk_score |-> c.short_metrics.avg_risk_score,
     short_max_risk_score |-> c.short_metrics.max_risk_score,
     short_avg_isolation |-> c.short_metrics.avg_isolation,
     short_high_risk_count |-> c.short_metrics.high_risk_count,
     short_toxic_incidents |-> c.short_metrics.toxic_incidents,
     medium_avg_risk_score |-> c.medium_metrics.avg_risk_score,
     medium_max_risk_score |-> c.medium_metrics.max_risk_score,
     medium_avg_isolation |-> c.medium_metrics.avg_isolation,
     risk_trend |-> c.risk_trend, isolation_trend |-> c.isolation_trend,
     current_risk_label |-> c.risk_label, risk_label_since |-> risk_label_since,
     total_messages_7d |-> c.engagement.total_messages_7d,
     buddy_messages_7d |-> c.engagement.buddy_messages_7d,
     counselor_messages_7d |-> c.engagement.counselor_messages_7d,
     last_message_time |-> c.engagement.last_message_time,
     days_since_last_buddy_msg |-> c.engagement.days_since_last_buddy_msg,
     last_login_time |-> IF login_timestamp # NoTimestamp THEN login_timestamp ELSE t,
     days_since_last_login |->
         IF login_timestamp # NoTimestamp THEN DaysOf(t - login_timestamp) ELSE 0]

\* the complete profile update_user_risk_profile returns
ReturnedProfile(user_id, t, c, risk_label_since) ==
    [user_id |-> user_id, current_risk_label |-> c.risk_label,
     risk_label_since |-> risk_label_since, reasons |-> c.reasons,
     short_window |-> c.short_metrics, medium_window |-> c.medium_metrics,
     engagement |-> c.engagement,
     trends |-> [risk |-> c.risk_trend, isolation |-> c.isolation_trend],
     last_updated |-> t]

\* one call, run to its end with no other call in between
UpdateUserRiskProfile(user_id, thresholds, login_timestamp) ==
    LET messages == get_user_messages(message_predictions, user_id, HistoryDays, now)
        c        == ComputeProfile(user_id, messages, thresholds, now)
        existing == user_risk_profiles[user_id]
        since    == RiskLabelSince(existing, c.risk_label, now)
    IN  /\ \A w \in Workers : txn[w] = Idle
        /\ IF messages = <<>>
           THEN /\ call' = [op |-> "update_user_risk_profile", user_id |-> user_id,
                            thresholds |-> thresholds,
                            returned |-> NoHistoryProfile(user_id)]
                /\ UNCHANGED user_risk_profiles
           ELSE /\ user_risk_profiles' =
                       [user_risk_profiles EXCEPT ![user_id] =
                           ProfileRow(user_id, now, c, since, login_timestamp)]
                /\ call' = [op |-> "update_user_risk_profile", user_id |-> user_id,
                            thresholds |-> thresholds,
                            returned |-> ReturnedProfile(user_id, now, c, since)]
        /\ UNCHANGED <<now, message_predictions, message_seq, txn, decVars, extVars>>

\* time passes
AdvanceClock(d) ==
    /\ now + d <= MaxNow
    /\ now' = now + d
    /\ UNCHANGED <<message_predictions, message_seq, user_risk_profiles, call, txn,
                   decVars, extVars>>

Init ==
    /\ EngineStart
    /\ fin = Pending
    /\ fout = Pending

Next ==
    \/ \E u \in Users, p \in EnginePreds, ct \in ConversationTypes :
          StoreMessagePrediction(u, "text", p, ct, NoTimestamp)
    \/ \E u \in Users, T \in EngineThresholds :
          UpdateUserRiskProfile(u, T, NoTimestamp)
    \/ \E d \in ClockSteps : AdvanceClock(d)

Spec == Init /\ [][Next]_vars

\* ------------------------------------------------------------------------
\* Concurrent recomputations: each worker runs update_user_risk_profile as
\* the three database round trips it is made of.  Connections come from the
\* pool with the server's default isolation (READ COMMITTED): the SELECT
\* sees what is committed when it runs, and the upsert of the second writer
\* waits for the first to commit and then overwrites its row.
\* ------------------------------------------------------------------------
ConcPreds == {PredCalm, PredSpike}

ConcMaxStores == 2
ConcMaxNow == 16

\* get_user_messages and the computation up to the decision
ConcCompute(w, user_id, thresholds, login_timestamp) ==
    LET messages == get_user_messages(message_predictions, user_id, HistoryDays, now)
        c        == ComputeProfile(user_id, messages, thresholds, now)
    IN  /\ txn[w] = Idle
        /\ IF messages = <<>>
           THEN /\ call' = [op |-> "update_user_risk_profile", user_id |-> user_id,
                            thresholds |-> thresholds,
                            returned |-> NoHistoryProfile(user_id)]
                /\ UNCHANGED txn
           ELSE /\ txn' = [txn EXCEPT ![w] =
                              [pc |-> "computed", user_id |-> user_id,
                               thresholds |-> thresholds,
                               login_timestamp |-> login_timestamp, c |-> c]]
                /\ UNCHANGED call
        /\ UNCHANGED <<now, message_predictions, message_seq, user_risk_profiles,
                       decVars, extVars>>

\* with self.get_cursor(): now = datetime.now(); SELECT current_risk_label, ...
ConcSelect(w) ==
    /\ txn[w].pc = "computed"
    /\ txn' = [txn EXCEPT ![w] =
                  [pc |-> "selected", user_id |-> txn[w].user_id,
                   thresholds |-> txn[w].thresholds,
                   login_timestamp |-> txn[w].login_timestamp, c |-> txn[w].c,
                   now |-> now, existing |-> user_risk_profiles[txn[w].user_id]]]
    /\ UNCHANGED <<now, message_predictions, message_seq, user_risk_profiles, call,
                   decVars, extVars>>

\* INSERT ... ON CONFLICT (user_id) DO UPDATE, commit, return the profile
ConcUpsert(w) ==
    /\ txn[w].pc = "selected"
    /\ LET x     == txn[w]
           since == RiskLabelSince(x.existing, x.c.risk_label, x.now)
       IN  /\ user_risk_profiles' =
                  [user_risk_profiles EXCEPT ![x.user_id] =
                      ProfileRow(x.user_id, x.now, x.c, since, x.login_timestamp)]
           /\ call' = [op |-> "update_user_risk_profile", user_id |-> x.user_id,
                       thresholds |-> x.thresholds,
                       returned |-> ReturnedProfile(x.user_id, x.now, x.c, since)]
    /\ txn' = [txn EXCEPT ![w] = Idle]
    /\ UNCHANGED <<now, message_predictions, message_seq, decVars, extVars>>

NextConc ==
    \/ \E w \in Workers, u \in Users : ConcCompute(w, u, ThrFull, NoTimestamp)
    \/ \E w \in Workers : ConcSelect(w)
    \/ \E w \in Workers : ConcUpsert(w)
    \/ \E u \in Users, p \in ConcPreds :
          /\ message_seq <= ConcMaxStores
          /\ StoreMessagePrediction(u, "text", p, "buddy", NoTimestamp)
    \/ \E d \in ClockSteps :
          /\ now + d <= ConcMaxNow
          /\ AdvanceClock(d)

SpecConc == Init /\ [][NextConc]_vars

\* ------------------------------------------------------------------------
\* The two decisions as a state machine: Init draws the arguments, the
\* action applies the function once
\* ------------------------------------------------------------------------
Exactly(v) == [sum |-> v, n |-> 1]

DecMetrics ==
    { [avg_risk_score |-> Exactly(a), max_risk_score |-> m,
       avg_isolation |-> Exactly(i), high_risk_count |-> h,
       toxic_incidents |-> t, message_count |-> 4] :
        a \in {10, 20, 25, 30, 50, 70}, m \in {10, 25, 70, 85},
        i \in {10, 60, 90}, h \in {0, 3}, t \in {0, 3} }

DecEngagement ==
    { [total_messages_7d |-> 4, buddy_messages_7d |-> 4, counselor_messages_7d |-> 0,
       last_message_time |-> 0, days_since_last_buddy_msg |-> d] : d \in {0, 5, 6, 999} }

\* the 30-day window holds the 7-day one: its maximum is at least as large
DecMedium(s) ==
    { s, [s EXCEPT !.avg_risk_score = Exactly(50), !.max_risk_score = 85,
                   !.avg_isolation = Exactly(30), !.message_count = 6] }

\* the 7-day mean cannot exceed the 7-day maximum
DecShort == { x \in DecMetrics : ~MeanGT(x.avg_risk_score, x.max_risk_score) }

UserInput(s, md, e, rt, it, T) ==
    [level |-> "user", short_metrics |-> s, medium_metrics |-> md, engagement |-> e,
     risk_trend |-> rt, isolation_trend |-> it, thresholds |-> T]

MessageInput(r, pr, pc, pi, pt, T) ==
    [level |-> "message", risk_score |-> r, p_relapse |-> pr, p_craving |-> pc,
     p_isolation |-> pi, p_toxic |-> pt, thresholds |-> T]

InitDecide ==
    /\ \/ \E s \in DecShort, e \in DecEngagement, rt \in Trends,
             it \in {"stable", "rapid_decline"}, T \in ThresholdConfigs :
            \E md \in DecMedium(s) : fin = UserInput(s, md, e, rt, it, T)
       \/ \E r \in {10, 30, 50, 70, 90}, pr \in {10, 80, 90}, pc \in {10, 80},
             pi \in {10, 90}, pt \in {0, 70, 90}, T \in ThresholdConfigs :
            fin = MessageInput(r, pr, pc, pi, pt, T)
    /\ fout = Pending
    /\ EngineStart

ApplyFinalRiskDecision ==
    /\ fin.level = "user"
    /\ fout = Pending
    /\ fout' = apply_final_risk_decision(fin.short_metrics, fin.medium_metrics,
                                         fin.engagement, fin.risk_trend,
                                         fin.isolation_trend, fin.thresholds)
    /\ UNCHANGED <<fin, engVars, extVars>>

ApplyFusionV2 ==
    /\ fin.level = "message"
    /\ fout = Pending
    /\ fout' = FuseMessage(fin.risk_score, fin.p_relapse, fin.p_craving,
                           fin.p_isolation, fin.p_toxic, fin.thresholds)
    /\ UNCHANGED <<fin, engVars, extVars>>

NextDecide == ApplyFinalRiskDecision \/ ApplyFusionV2

SpecDecide == InitDecide /\ [][NextDecide]_vars

\* ------------------------------------------------------------------------
\* detect_trend as a state machine: Init draws a message list (distinct
\* timestamps, ascending, at most MaxMsgs messages) and a metric, the
\* action applies the function once
\* ------------------------------------------------------------------------
MaxMsgs == 6

TrendNow == TimeDelta(30)

\* ages in ticks: 0.5, 2.5, 3, 7.5, 8, 14.5, 15 and 22.5 days
TrendAges == {1, 5, 6, 15, 16, 29, 30, 45}

TrendPreds == {PredCalm, PredMild, PredSpike}

TrendMessages(f) ==
    LET stamps == Ascending({TrendNow - a : a \in {x \in TrendAges : f[x] # Absent}})
    IN  [i \in 1..Len(stamps) |->
            MessageRow(i, "text", stamps[i], f[TrendNow - stamps[i]], "buddy")]

InitTrend ==
    /\ \E f \in [TrendAges -> TrendPreds \cup {Absent}],
          metric \in {"risk_score", "p_isolation"} :
          /\ Cardinality({x \in TrendAges : f[x] # Absent}) <= MaxMsgs
          /\ fin = [level |-> "trend", messages |-> TrendMessages(f),
                    metric |-> metric, now |-> TrendNow]
    /\ fout = Pending
    /\ EngineStart

DetectTrend ==
    /\ fin.level = "trend"
    /\ fout = Pending
    /\ fout' = [trend |-> detect_trend(fin.messages, fin.metric, fin.now)]
    /\ UNCHANGED <<fin, engVars, extVars>>

NextTrend == DetectTrend

SpecTrend == InitTrend /\ [][NextTrend]_vars

\* ------------------------------------------------------------------------
\* compute_window_metrics as a state machine: Init draws a message list
\* (distinct timestamps, ascending), the action computes the 7-day and the
\* 30-day window over it as update_user_risk_profile does
\* ------------------------------------------------------------------------
WindowNow == TimeDelta(31)

\* ages in ticks: 0.5, 7, 7.5, 8, 30 and 30.5 days
WindowAges == {1, 14, 15, 16, 60, 61}

\* p_toxic at its threshold, nothing else
PredToxic == [p_craving |-> 5, p_relapse |-> 5, p_negative_mood |-> 10, p_neutral |-> 20,
              p_toxic |-> 70, p_isolation |-> 10, risk_score |-> 10]

\* p_relapse at its threshold, risk_score and p_craving under theirs
PredRelapse == [p_craving |-> 49, p_relapse |-> 50, p_negative_mood |-> 10, p_neutral |-> 30,
                p_toxic |-> 69, p_isolation |-> 40, risk_score |-> 50]

\* p_craving at its threshold, risk_score and p_relapse under theirs
PredCraving == [p_craving |-> 50, p_relapse |-> 49, p_negative_mood |-> 10, p_neutral |-> 30,
                p_toxic |-> 0, p_isolation |-> 40, risk_score |-> 50]

\* risk_score at its threshold through negative mood alone, and toxic
PredMoody == [p_craving |-> 49, p_relapse |-> 49, p_negative_mood |-> 100, p_neutral |-> 0,
              p_toxic |-> 90, p_isolation |-> 60, risk_score |-> 70]

WindowPreds == {PredCalm, PredToxic, PredRelapse, PredCraving, PredMoody}

WindowMessages(f) ==
    LET stamps == Ascending({WindowNow - a : a \in {x \in WindowAges : f[x] # Absent}})
    IN  [i \in 1..Len(stamps) |->
            MessageRow(i, "text", stamps[i], f[WindowNow - stamps[i]], "buddy")]

InitWindow ==
    /\ \E f \in [WindowAges -> WindowPreds \cup {Absent}] :
          fin = [level |-> "window", messages |-> WindowMessages(f), now |-> WindowNow]
    /\ fout = Pending
    /\ EngineStart

ComputeWindows ==
    /\ fin.level = "window"
    /\ fout = Pending
    /\ fout' = [short_metrics  |->
                    compute_window_metrics(fin.messages, ShortWindowDays, fin.now),
                medium_metrics |->
                    compute_window_metrics(fin.messages, MediumWindowDays, fin.now)]
    /\ UNCHANGED <<fin, engVars, extVars>>

NextWindow == ComputeWindows

SpecWindow == InitWindow /\ [][NextWindow]_vars

\* ------------------------------------------------------------------------
\* The engine with the calls in which a storage statement fails, and with
\* callers that hand over a prediction vector of their own
\* ------------------------------------------------------------------------
OpsMaxStores == 2
OpsMaxNow == 62

\* the clock moves by 31 days
OpsClockSteps == {62}

\* a vector a caller hands over with a risk_score of 1.5
PredOutOfRange == [p_craving |-> 5, p_relapse |-> 5, p_negative_mood |-> 10, p_neutral |-> 80,
                   p_toxic |-> 0, p_isolation |-> 25, risk_score |-> 150]

\* the (predictions, conversation_type) pairs the callers store
OpsPayloads ==
    { [predictions |-> PredCalm, conversation_type |-> "buddy"],
      [predictions |-> PredMild, conversation_type |-> "counselor"],
      [predictions |-> PredSpike, conversation_type |-> "counselor"],
      [predictions |-> PredOutOfRange, conversation_type |-> "buddy"] }

\* mutant: what was written before the failure stays
GetCursor_commits_on_error(committed, written, failed) == written

\* with self.get_cursor(): conn.commit() when the block ends normally,
\* conn.rollback() and re-raise when a statement (or the commit) fails
GetCursor(committed, written, failed) == IF failed THEN committed ELSE written

\* the statements of store_message_prediction that can fail
StoreFailurePoints == {"execute", "commit"}

\* store_message_prediction when its statement or its commit fails; the
\* sequence value the INSERT drew is not given back by the rollback
StoreMessagePredictionFails(user_id, message_text, predictions, conversation_type, stmt) ==
    LET conflict == {r \in message_predictions :
                        r.user_id = user_id /\ r.timestamp = now}
        old      == CHOOSE r \in conflict : TRUE
        row      == IF conflict = {}
                    THEN MessageRow(message_seq, message_text, now, predictions,
                                    conversation_type) @@ [user_id |-> user_id]
                    ELSE MessageRow(old.id, message_text, now, predictions,
                                    old.conversation_type) @@ [user_id |-> user_id]
        written  == IF stmt = "execute" THEN message_predictions
                    ELSE (message_predictions \ conflict) \cup {row}
    IN  /\ message_seq <= OpsMaxStores
        /\ message_predictions' = GetCursor(message_predictions, written, TRUE)
        /\ message_seq' = IF stmt = "execute" THEN message_seq ELSE message_seq + 1
        /\ call' = [op |-> "store_message_prediction", user_id |-> user_id,
                    raised |-> "Error", at |-> stmt]
        /\ UNCHANGED <<now, user_risk_profiles, txn, decVars, extVars>>

\* the statements of update_user_risk_profile that can fail
UpdateFailurePoints == {"get_user_messages", "select", "upsert", "commit"}

\* update_user_risk_profile when one of its statements or the commit fails
UpdateUserRiskProfileFails(user_id, thresholds, login_timestamp, stmt) ==
    LET messages == get_user_messages(message_predictions, user_id, HistoryDays, now)
        c        == ComputeProfile(user_id, messages, thresholds, now)
        existing == user_risk_profiles[user_id]
        since    == RiskLabelSince(existing, c.risk_label, now)
        written  == IF stmt = "commit"
                    THEN [user_risk_profiles EXCEPT ![user_id] =
                             ProfileRow(user_id, now, c, since, login_timestamp)]
                    ELSE user_risk_profiles
    IN  /\ \A w \in Workers : txn[w] = Idle
        /\ stmt # "get_user_messages" => messages # <<>>
        /\ user_risk_profiles' = GetCursor(user_risk_profiles, written, TRUE)
        /\ call' = [op |-> "update_user_risk_profile", user_id |-> user_id,
                    raised |-> "Error", at |-> stmt]
        /\ UNCHANGED <<now, message_predictions, message_seq, txn, decVars, extVars>>

OpsMaxInterventions == 2

\* outcome: str = 'pending'
DefaultOutcome == "pending"

\* mutant: the table has no foreign key
ForeignKeyHolds_unchecked(user_id) == TRUE

\* FOREIGN KEY (user_id) REFERENCES user_risk_profiles(user_id)
ForeignKeyHolds(user_id) == user_risk_profiles[user_id] # Absent

\* INSERT INTO interventions ... RETURNING id; the INSERT draws its id before
\* the foreign key is checked, and a rollback does not give it back
LogIntervention(user_id, intervention_type, risk_label, context, outcome) ==
    LET row == [id |-> interventions.next_id, user_id |-> user_id, timestamp |-> now,
                intervention_type |-> intervention_type,
                risk_label_at_time |-> risk_label, context |-> context,
                outcome |-> outcome]
    IN  /\ interventions.next_id <= OpsMaxInterventions
        /\ IF ForeignKeyHolds(user_id)
           THEN /\ interventions' = [rows |-> interventions.rows \cup {row},
                                     next_id |-> interventions.next_id + 1]
                /\ call' = [op |-> "log_intervention", user_id |-> user_id,
                            returned |-> row.id]
           ELSE /\ interventions' = [rows |-> interventions.rows,
                                     next_id |-> interventions.next_id + 1]
                /\ call' = [op |-> "log_intervention", user_id |-> user_id,
                            raised |-> "IntegrityError"]
        /\ UNCHANGED <<now, message_predictions, message_seq, user_risk_profiles, txn,
                       decVars, pool, analyzer, history>>

\* the fields the response model UserRiskProfile declares, all required
RequiredProfileFields ==
    {"user_id", "current_risk_label", "risk_label_since", "reasons", "short_window",
     "medium_window", "engagement", "trends", "last_updated"}

\* UserRiskProfile(**profile) inside the handler's try block: a dict with one
\* of the fields missing raises a validation error, which the handler turns
\* into HTTP 500; keys the model does not declare are dropped
UserRiskProfileResponse(profile) ==
    IF RequiredProfileFields \subseteq DOMAIN profile
    THEN [status |-> 200, body |-> [f \in RequiredProfileFields |-> profile[f]]]
    ELSE [status |-> 500, detail |-> "ValidationError"]

\* GET /api/v1/user-risk/{user_id}: recompute the profile with the analyzer's
\* thresholds, then build the response
GetUserRisk(user_id) ==
    LET thresholds == ThrFull
        messages == get_user_messages(message_predictions, user_id, HistoryDays, now)
        c        == ComputeProfile(user_id, messages, thresholds, now)
        existing == user_risk_profiles[user_id]
        since    == RiskLabelSince(existing, c.risk_label, now)
    IN  /\ \A w \in Workers : txn[w] = Idle
        /\ analyzer.instance # 0
        /\ IF messages = <<>>
           THEN /\ call' = [op |-> "get_user_risk", user_id |-> user_id,
                            response |-> UserRiskProfileResponse(NoHistoryProfile(user_id))]
                /\ UNCHANGED user_risk_profiles
           ELSE /\ user_risk_profiles' =
                       [user_risk_profiles EXCEPT ![user_id] =
                           ProfileRow(user_id, now, c, since, NoTimestamp)]
                /\ call' = [op |-> "get_user_risk", user_id |-> user_id,
                            response |->
                                UserRiskProfileResponse(
                                    ReturnedProfile(user_id, now, c, since))]
        /\ UNCHANGED <<now, message_predictions, message_seq, txn, decVars, extVars>>

\* time passes
OpsAdvanceClock(d) ==
    /\ now + d <= OpsMaxNow
    /\ now' = now + d
    /\ UNCHANGED <<message_predictions, message_seq, user_risk_profiles, call, txn,
                   decVars, extVars>>

NextOps ==
    \/ \E u \in Users, x \in OpsPayloads :
          /\ message_seq <= OpsMaxStores
          /\ StoreMessagePrediction(u, "text", x.predictions, x.conversation_type,
                                    NoTimestamp)
    \/ \E u \in Users, x \in OpsPayloads, stmt \in StoreFailurePoints :
          StoreMessagePredictionFails(u, "text", x.predictions, x.conversation_type, stmt)
    \/ \E u \in Users : UpdateUserRiskProfile(u, ThrFull, NoTimestamp)
    \/ \E u \in Users, stmt \in UpdateFailurePoints :
          UpdateUserRiskProfileFails(u, ThrFull, NoTimestamp, stmt)
    \/ \E u \in Users, outcome \in {DefaultOutcome, "engaged"} :
          LogIntervention(u, "buddy_nudge", "HIGH_RISK", "{}", outcome)
    \/ \E u \in Users : GetUserRisk(u)
    \/ \E d \in OpsClockSteps : OpsAdvanceClock(d)

SpecOps == Init /\ [][NextOps]_vars

\* ------------------------------------------------------------------------
\* The engine with several users and the two listings over their profiles
\* ------------------------------------------------------------------------
ListUsers == {"u1", "u2"}

ListMaxStores == 2

\* isolation above T_iso with no addiction risk
PredLonely == [p_craving |-> 5, p_relapse |-> 5, p_negative_mood |-> 10, p_neutral |-> 60,
               p_toxic |-> 0, p_isolation |-> 95, risk_score |-> 10]

\* one payload for each label, two for LOW_RISK; the counselor messages
\* leave the user without a buddy message
ListPayloads ==
    { [predictions |-> PredCalm, conversation_type |-> "counselor"],
      [predictions |-> PredMild, conversation_type |-> "buddy"],
      [predictions |-> PredCraving, conversation_type |-> "buddy"],
      [predictions |-> PredSpike, conversation_type |-> "counselor"],
      [predictions |-> PredLonely, conversation_type |-> "buddy"] }

\* days_silent: the default of the engine and the engagement sentinel
ListDaysSilent == {3, 999}

\* the users that have a row in user_risk_profiles
StoredUsers == {u \in DOMAIN user_risk_profiles : user_risk_profiles[u] # Absent}

\* the orders in which a query can return the rows of the users S
Orders(S) ==
    {f \in [1..Cardinality(S) -> S] : \A i, j \in 1..Cardinality(S) : i # j => f[i] # f[j]}

\* mutant: ISOLATION_ONLY is listed before MODERATE_RISK
LabelPriority_isolation_first(label) ==
    IF label = "HIGH_RISK" THEN 1
    ELSE IF label = "ISOLATION_ONLY" THEN 2
    ELSE IF label = "MODERATE_RISK" THEN 3
    ELSE 4

\* CASE current_risk_label WHEN 'HIGH_RISK' THEN 1 ... ELSE 4 END
LabelPriority(label) ==
    IF label = "HIGH_RISK" THEN 1
    ELSE IF label = "MODERATE_RISK" THEN 2
    ELSE IF label = "ISOLATION_ONLY" THEN 3
    ELSE 4

\* ORDER BY CASE ..., short_avg_risk_score DESC: row a may come before row b
ProfileOrder(a, b) ==
    \/ LabelPriority(a.current_risk_label) < LabelPriority(b.current_risk_label)
    \/ /\ LabelPriority(a.current_risk_label) = LabelPriority(b.current_risk_label)
       /\ a.short_avg_risk_score.sum * b.short_avg_risk_score.n >=
              b.short_avg_risk_score.sum * a.short_avg_risk_score.n

\* the columns get_all_user_profiles selects
ListedProfile(r) ==
    [user_id |-> r.user_id, current_risk_label |-> r.current_risk_label,
     risk_trend |-> r.risk_trend, isolation_trend |-> r.isolation_trend,
     short_avg_risk_score |-> r.short_avg_risk_score,
     short_avg_isolation |-> r.short_avg_isolation,
     days_since_last_buddy_msg |-> r.days_since_last_buddy_msg,
     last_updated |-> r.last_updated]

\* rows that compare equal come in an order the database chooses
GetAllUserProfiles ==
    /\ \E f \in Orders(StoredUsers) :
          /\ \A i, j \in DOMAIN f :
                i < j => ProfileOrder(user_risk_profiles[f[i]], user_risk_profiles[f[j]])
          /\ call' = [op |-> "get_all_user_profiles",
                      returned |-> [i \in DOMAIN f |->
                                       ListedProfile(user_risk_profiles[f[i]])]]
    /\ UNCHANGED <<now, message_predictions, message_seq, user_risk_profiles, txn,
                   decVars, extVars>>

\* mutant: the label is not looked at
NeedsCheckIn_any_label(r, days_silent) == r.days_since_last_buddy_msg >= days_silent

\* WHERE days_since_last_buddy_msg >= %s AND current_risk_label != 'HIGH_RISK'
NeedsCheckIn(r, days_silent) ==
    /\ r.days_since_last_buddy_msg >= days_silent
    /\ r.current_risk_label # "HIGH_RISK"

\* ORDER BY days_since_last_buddy_msg DESC, the user_id of each row
GetUsersNeedingCheckIn(days_silent) ==
    LET silent == {u \in StoredUsers : NeedsCheckIn(user_risk_profiles[u], days_silent)}
    IN  /\ \E f \in Orders(silent) :
              /\ \A i, j \in DOMAIN f :
                    i < j => user_risk_profiles[f[i]].days_since_last_buddy_msg >=
                                user_risk_profiles[f[j]].days_since_last_buddy_msg
              /\ call' = [op |-> "get_users_needing_check_in",
                          days_silent |-> days_silent, returned |-> f]
        /\ UNCHANGED <<now, message_predictions, message_seq, user_risk_profiles, txn,
                       decVars, extVars>>

InitList ==
    /\ ExtStart
    /\ now = 0
    /\ message_predictions = {}
    /\ message_seq = 1
    /\ user_risk_profiles = [u \in ListUsers |-> Absent]
    /\ call = Pending
    /\ txn = [w \in Workers |-> Idle]
    /\ fin = Pending
    /\ fout = Pending

NextList ==
    \/ \E u \in ListUsers, x \in ListPayloads :
          /\ message_seq <= ListMaxStores
          /\ StoreMessagePrediction(u, "text", x.predictions, x.conversation_type,
                                    NoTimestamp)
    \/ \E u \in ListUsers : UpdateUserRiskProfile(u, ThrFull, NoTimestamp)
    \/ GetAllUserProfiles
    \/ \E days_silent \in ListDaysSilent : GetUsersNeedingCheckIn(days_silent)

SpecList == InitList /\ [][NextList]_vars

\* ------------------------------------------------------------------------
\* Two users, two workers: recomputations as the database round trips they
\* are made of, interleaved with stores and interventions of either user
\* ------------------------------------------------------------------------
PairMaxStores == 2
PairMaxInterventions == 1

NextPair ==
    \/ \E w \in Workers, u \in ListUsers : ConcCompute(w, u, ThrFull, NoTimestamp)
    \/ \E w \in Workers : ConcSelect(w)
    \/ \E w \in Workers : ConcUpsert(w)
    \/ \E u \in ListUsers, p \in ConcPreds :
          /\ message_seq <= PairMaxStores
          /\ StoreMessagePrediction(u, "text", p, "buddy", NoTimestamp)
    \/ \E u \in ListUsers :
          /\ interventions.next_id <= PairMaxInterventions
          /\ LogIntervention(u, "buddy_nudge", "HIGH_RISK", "{}", DefaultOutcome)

SpecPair == InitList /\ [][NextPair]_vars

\* ------------------------------------------------------------------------
\* Ingestion: the analyze-message endpoint (analyze_message, then
\* store_message_prediction) and a caller that stores a dict of its own
\* ------------------------------------------------------------------------
\* fusion_config['risk_score']['neg_weight'], in hundredths
neg_weight == 50

\* max(p_relapse, p_craving, neg_weight * p_negative_mood); the model outputs
\* below have an even p_negative_mood, so the product is a whole hundredth
compute_risk_score(p_relapse, p_craving, p_negative_mood) ==
    LET weighted == (neg_weight * p_negative_mood) \div 100
    IN  IF p_relapse >= p_craving /\ p_relapse >= weighted THEN p_relapse
        ELSE IF p_craving >= weighted THEN p_craving
        ELSE weighted

\* the dict analyze_message builds from the two models' outputs
analyze_message(risk_probs, p_isolation) ==
    LET p_craving       == Get(risk_probs, "CRAVING", 0)
        p_relapse       == Get(risk_probs, "RELAPSE", 0)
        p_negative_mood == Get(risk_probs, "NEGATIVE_MOOD", 0)
    IN  [p_craving |-> p_craving, p_relapse |-> p_relapse,
         p_negative_mood |-> p_negative_mood,
         p_neutral |-> Get(risk_probs, "NEUTRAL", 0),
         p_toxic |-> Get(risk_probs, "TOXIC", 0),
         p_isolation |-> p_isolation,
         risk_score |-> compute_risk_score(p_relapse, p_craving, p_negative_mood)]

\* outputs of the risk classifier: negative mood leads, craving leads, and a
\* label map that knows the NEUTRAL class only
RiskProbs ==
    { [CRAVING |-> 10, RELAPSE |-> 5, NEGATIVE_MOOD |-> 60, NEUTRAL |-> 20, TOXIC |-> 5],
      [CRAVING |-> 70, RELAPSE |-> 10, NEGATIVE_MOOD |-> 10, NEUTRAL |-> 5, TOXIC |-> 5],
      [NEUTRAL |-> 100] }

\* outputs of the isolation classifier
IsolationProbs == {10, 95}

\* a dict handed to store_message_prediction without the key risk_score
PredNoRiskScore == [p_craving |-> 10, p_relapse |-> 60, p_negative_mood |-> 20,
                    p_neutral |-> 10, p_toxic |-> 0, p_isolation |-> 10]

IngestMaxStores == 2

\* POST /api/v1/analyze-message
AnalyzeMessageEndpoint(user_id, message_text, conversation_type) ==
    \E risk_probs \in RiskProbs, p_isolation \in IsolationProbs :
        StoreMessagePrediction(user_id, message_text,
                               analyze_message(risk_probs, p_isolation),
                               conversation_type, NoTimestamp)

NextIngest ==
    \/ \E u \in Users, ct \in ConversationTypes :
          /\ message_seq <= IngestMaxStores
          /\ AnalyzeMessageEndpoint(u, "text", ct)
    \/ \E u \in Users, ct \in ConversationTypes :
          /\ message_seq <= IngestMaxStores
          /\ StoreMessagePrediction(u, "text", PredNoRiskScore, ct, NoTimestamp)
    \/ \E d \in ClockSteps : AdvanceClock(d)

SpecIngest == Init /\ [][NextIngest]_vars

\* ------------------------------------------------------------------------
\* get_analyzer(): the module-level singleton, called from several threads.
\* analyzer.instance is _analyzer_instance (0 is None, k > 0 the k-th
\* RiskAnalyzer object built), analyzer.built counts the constructions.
\* ------------------------------------------------------------------------
AnalyzerThreads == {"t1", "t2", "t3"}

NoInstance == 0

\* _analyzer_instance is None
InstanceIsNone(a) == a.instance = NoInstance

\* if _analyzer_instance is None:
GetAnalyzerTest(th) ==
    /\ txn[th] = Idle
    /\ txn' = [txn EXCEPT ![th] =
                  IF InstanceIsNone(analyzer) THEN [pc |-> "construct"]
                  ELSE [pc |-> "return"]]
    /\ UNCHANGED <<now, message_predictions, message_seq, user_risk_profiles, call,
                   decVars, extVars>>

\* RiskAnalyzer(): the models are loaded, a new object exists
GetAnalyzerConstruct(th) ==
    /\ txn[th] = [pc |-> "construct"]
    /\ analyzer' = [analyzer EXCEPT !.built = @ + 1]
    /\ txn' = [txn EXCEPT ![th] = [pc |-> "assign", obj |-> analyzer.built + 1]]
    /\ UNCHANGED <<now, message_predictions, message_seq, user_risk_profiles, call,
                   decVars, interventions, pool, history>>

\* RiskAnalyzer() raises (a model file is missing): the global stays as it is
GetAnalyzerConstructFails(th) ==
    /\ txn[th] = [pc |-> "construct"]
    /\ txn' = [txn EXCEPT ![th] = Idle]
    /\ call' = [op |-> "get_analyzer", thread |-> th, raised |-> "Exception"]
    /\ UNCHANGED <<now, message_predictions, message_seq, user_risk_profiles,
                   decVars, extVars>>

\* _analyzer_instance = <the new object>
GetAnalyzerAssign(th) ==
    /\ "obj" \in DOMAIN txn[th]
    /\ txn[th].pc = "assign"
    /\ analyzer' = [analyzer EXCEPT !.instance = txn[th].obj]
    /\ txn' = [txn EXCEPT ![th] = [pc |-> "return"]]
    /\ UNCHANGED <<now, message_predictions, message_seq, user_risk_profiles, call,
                   decVars, interventions, pool, history>>

\* return _analyzer_instance
GetAnalyzerReturn(th) ==
    /\ txn[th] = [pc |-> "return"]
    /\ txn' = [txn EXCEPT ![th] = Idle]
    /\ call' = [op |-> "get_analyzer", thread |-> th, returned |-> analyzer.instance]
    /\ UNCHANGED <<now, message_predictions, message_seq, user_risk_profiles,
                   decVars, extVars>>

\* the process before its first get_analyzer() call
InitAnalyzer ==
    /\ interventions = [rows |-> {}, next_id |-> 1]
    /\ pool = 0
    /\ analyzer = [instance |-> NoInstance, built |-> 0]
    /\ history = <<>>
    /\ now = 0
    /\ message_predictions = {}
    /\ message_seq = 1
    /\ user_risk_profiles = [u \in Users |-> Absent]
    /\ call = Pending
    /\ txn = [th \in AnalyzerThreads |-> Idle]
    /\ fin = Pending
    /\ fout = Pending

NextAnalyzer ==
    \/ \E th \in AnalyzerThreads : GetAnalyzerTest(th)
    \/ \E th \in AnalyzerThreads : GetAnalyzerConstruct(th)
    \/ \E th \in AnalyzerThreads : GetAnalyzerConstructFails(th)
    \/ \E th \in AnalyzerThreads : GetAnalyzerAssign(th)
    \/ \E th \in AnalyzerThreads : GetAnalyzerReturn(th)

SpecAnalyzer == InitAnalyzer /\ [][NextAnalyzer]_vars

\* ------------------------------------------------------------------------
\* get_cursor(): the context manager every engine operation runs its
\* statements in, used from several threads on one ThreadedConnectionPool.
\* pool is the number of connections checked out; txn[th] is the position
\* of thread th inside get_cursor.
\* ------------------------------------------------------------------------
PoolThreads == {"t1", "t2", "t3"}

MaxConn == 2

\* conn = self.connection_pool.getconn(): a connection is handed out, or the
\* pool is exhausted and getconn raises before the try block is entered
GetConn(th) ==
    /\ txn[th] = Idle
    /\ IF pool < MaxConn
       THEN /\ pool' = pool + 1
            /\ txn' = [txn EXCEPT ![th] = [pc |-> "cursor"]]
            /\ UNCHANGED call
       ELSE /\ call' = [op |-> "get_cursor", thread |-> th, raised |-> "PoolError"]
            /\ UNCHANGED <<pool, txn>>
    /\ UNCHANGED <<now, message_predictions, message_seq, user_risk_profiles,
                   decVars, interventions, analyzer, history>>

\* cursor = conn.cursor(...) succeeds and the with-block starts
CursorCreated(th) ==
    /\ txn[th] = [pc |-> "cursor"]
    /\ txn' = [txn EXCEPT ![th] = [pc |-> "body", cursor |-> TRUE]]
    /\ UNCHANGED <<now, message_predictions, message_seq, user_risk_profiles, call,
                   decVars, extVars>>

\* conn.cursor(...) raises (the server closed the pooled connection): the
\* name cursor is never bound, control goes to the except clause
CursorFails(th) ==
    /\ txn[th] = [pc |-> "cursor"]
    /\ txn' = [txn EXCEPT ![th] = [pc |-> "except", cursor |-> FALSE]]
    /\ UNCHANGED <<now, message_predictions, message_seq, user_risk_profiles, call,
                   decVars, extVars>>

\* the with-block ends normally; conn.commit() succeeds
BodyCommits(th) ==
    /\ txn[th] = [pc |-> "body", cursor |-> TRUE]
    /\ txn' = [txn EXCEPT ![th] = [pc |-> "finally", cursor |-> TRUE, error |-> FALSE]]
    /\ UNCHANGED <<now, message_predictions, message_seq, user_risk_profiles, call,
                   decVars, extVars>>

\* a statement of the with-block, or conn.commit(), raises
BodyRaises(th) ==
    /\ txn[th] = [pc |-> "body", cursor |-> TRUE]
    /\ txn' = [txn EXCEPT ![th] = [pc |-> "except", cursor |-> TRUE]]
    /\ UNCHANGED <<now, message_predictions, message_seq, user_risk_profiles, call,
                   decVars, extVars>>

\* except Exception as e: conn.rollback(); raise e
Except(th) ==
    /\ "pc" \in DOMAIN txn[th]
    /\ txn[th].pc = "except"
    /\ txn' = [txn EXCEPT ![th] =
                  [pc |-> "finally", cursor |-> txn[th].cursor, error |-> TRUE]]
    /\ UNCHANGED <<now, message_predictions, message_seq, user_risk_profiles, call,
                   decVars, extVars>>

\* finally: cursor.close(); self.connection_pool.putconn(conn).  With the
\* name cursor unbound, cursor.close() raises UnboundLocalError and putconn
\* is not reached.
Finally(th) ==
    /\ "pc" \in DOMAIN txn[th]
    /\ txn[th].pc = "finally"
    /\ IF txn[th].cursor
       THEN /\ pool' = pool - 1
            /\ call' = [op |-> "get_cursor", thread |-> th] @@
                        (IF txn[th].error THEN [raised |-> "Exception"]
                         ELSE [returned |-> TRUE])
       ELSE /\ pool' = pool
            /\ call' = [op |-> "get_cursor", thread |-> th,
                        raised |-> "UnboundLocalError"]
    /\ txn' = [txn EXCEPT ![th] = Idle]
    /\ UNCHANGED <<now, message_predictions, message_seq, user_risk_profiles,
                   decVars, interventions, analyzer, history>>

\* the engine after __init__: the pool is created, no connection is out
InitPool ==
    /\ ExtStart
    /\ now = 0
    /\ message_predictions = {}
    /\ message_seq = 1
    /\ user_risk_profiles = [u \in Users |-> Absent]
    /\ call = Pending
    /\ txn = [th \in PoolThreads |-> Idle]
    /\ fin = Pending
    /\ fout = Pending

NextPool ==
    \/ \E th \in PoolThreads : GetConn(th)
    \/ \E th \in PoolThreads : CursorCreated(th)
    \/ \E th \in PoolThreads : CursorFails(th)
    \/ \E th \in PoolThreads : BodyCommits(th)
    \/ \E th \in PoolThreads : BodyRaises(th)
    \/ \E th \in PoolThreads : Except(th)
    \/ \E th \in PoolThreads : Finally(th)

SpecPool == InitPool /\ [][NextPool]_vars

\* ------------------------------------------------------------------------
\* The Streamlit demo: one browser session with its rolling conversation.
\* A text is a sequence of characters; history is st.session_state.history.
\* ------------------------------------------------------------------------
ROLLING_WINDOW_SIZE == 5

Whitespace == {" ", "\n"}

\* str.strip()
RECURSIVE strip(_)
strip(text) ==
    IF text = <<>> THEN <<>>
    ELSE IF Head(text) \in Whitespace THEN strip(Tail(text))
    ELSE IF text[Len(text)] \in Whitespace THEN strip(SubSeq(text, 1, Len(text) - 1))
    ELSE text

\* what the user may have in the text area when a button is clicked
DemoInputs ==
    { <<>>, <<" ", "\n">>, <<"c">>, <<" ", "r", "\n">>, <<"m", " ">>, <<"\n", "i">> }

\* the risk classifier's softmax output for a message, here decided by the
\* message's first character: relapse talk, low mood, anything else
predict_risk_probs(msg) ==
    IF Head(msg) = "r"
    THEN [CRAVING |-> 5, NEGATIVE_MOOD |-> 5, NEUTRAL |-> 5, RELAPSE |-> 85, TOXIC |-> 0]
    ELSE IF Head(msg) = "m"
    THEN [CRAVING |-> 5, NEGATIVE_MOOD |-> 80, NEUTRAL |-> 5, RELAPSE |-> 5, TOXIC |-> 5]
    ELSE [CRAVING |-> 5, NEGATIVE_MOOD |-> 10, NEUTRAL |-> 80, RELAPSE |-> 5, TOXIC |-> 0]

\* the isolation classifier's output: high for a message about being alone
predict_iso_prob(msg) == IF Head(msg) = "i" THEN 95 ELSE 25

\* per_msg_outputs: the two models and compute_risk_score on every message
\* of the history
PerMsgOutputs(h) ==
    [i \in 1..Len(h) |-> analyze_message(predict_risk_probs(h[i]), predict_iso_prob(h[i]))]

\* mutant: the first N messages are kept
KeepLast_first(h, n) == IF Len(h) > n THEN SubSeq(h, 1, n) ELSE h

\* if len(history) > N: history = history[-N:]
KeepLast(h, n) == IF Len(h) > n THEN SubSeq(h, Len(h) - n + 1, Len(h)) ELSE h

\* the Analyze button with the given text in the text area
AnalyzeClick(text) ==
    /\ IF strip(text) # <<>>
       THEN LET h   == KeepLast(Append(history, strip(text)), ROLLING_WINDOW_SIZE)
                out == PerMsgOutputs(h)
                rolling_risk_score  == MaxField(out, "risk_score")
                rolling_p_isolation == MaxField(out, "p_isolation")
                fused == FuseMessage(rolling_risk_score, MaxField(out, "p_relapse"),
                                     MaxField(out, "p_craving"), rolling_p_isolation,
                                     MaxField(out, "p_toxic"), ThrFull)
            IN  /\ history' = h
                /\ call' = [op |-> "analyze", label |-> fused.label,
                            reasons |-> fused.reasons, tox_flag |-> fused.tox_flag,
                            rolling_risk_score |-> rolling_risk_score,
                            rolling_p_isolation |-> rolling_p_isolation,
                            p_negative_mood_mean |-> Mean(out, "p_negative_mood"),
                            p_neutral_mean |-> Mean(out, "p_neutral")]
       ELSE /\ call' = [op |-> "analyze", info |-> "Enter a message and click Analyze."]
            /\ UNCHANGED history
    /\ UNCHANGED <<now, message_predictions, message_seq, user_risk_profiles, txn,
                   decVars, interventions, pool, analyzer>>

\* the Clear conversation button: the script reruns without an analysis and
\* then empties the history
ClearConversation ==
    /\ history' = <<>>
    /\ call' = [op |-> "clear", info |-> "Enter a message and click Analyze."]
    /\ UNCHANGED <<now, message_predictions, message_seq, user_risk_profiles, txn,
                   decVars, interventions, pool, analyzer>>

\* a new session: history = []
InitDemo ==
    /\ Init
    /\ history = <<>>

NextDemo ==
    \/ \E text \in DemoInputs : AnalyzeClick(text)
    \/ ClearConversation

SpecDemo == InitDemo /\ [][NextDemo]_vars

Decided == fout # Pending

UserDecided == fin.level = "user" /\ Decided

MessageDecided == fin.level = "message" /\ Decided

\* ------------------------------------------------------------------------
\* C3
\* ------------------------------------------------------------------------
C3Rules(x) ==
    LET T   == x.thresholds
        avg == x.short_metrics.avg_risk_score
        iso == x.short_metrics.avg_isolation
    IN  << x.short_metrics.max_risk_score >= T["T_high"],
           x.short_metrics.high_risk_count >= 3,
           x.risk_trend = "rapid_decline",
           avg.sum >= T["T_iso_escalate"] * avg.n /\ iso.sum >= T["T_iso"] * iso.n,
           avg.sum >= T["T_mid"] * avg.n,
           x.risk_trend = "declining",
           x.engagement.days_since_last_buddy_msg > 5 /\ avg.sum > 20 * avg.n,
           iso.sum >= T["T_iso"] * iso.n /\ avg.sum < 30 * avg.n,
           TRUE >>

C3Labels ==
    << "HIGH_RISK", "HIGH_RISK", "HIGH_RISK", "HIGH_RISK",
       "MODERATE_RISK", "MODERATE_RISK", "MODERATE_RISK",
       "ISOLATION_ONLY", "LOW_RISK" >>

C3Reasons ==
    << "Max risk score in last 7 days",
       "Multiple high-risk messages in short window",
       "Detected rapid decline in user state",
       "Isolation escalating moderate base risk",
       "Average risk score elevated",
       "Risk trend is declining (worsening)",
       "Social withdrawal + mild risk",
       "High isolation without addiction risk",
       "No significant risk indicators" >>

FirstTrue(rules) == CHOOSE k \in 1..Len(rules) : rules[k] /\ \A j \in 1..(k-1) : ~rules[j]

\* C3: with the four user-level thresholds given, apply_final_risk_decision
\* returns the label of the first rule of the nine-rule order that matches,
\* and a reasons list holding that rule's justification and nothing else.
C3_FirstMatchingRuleWins ==
    (UserDecided /\ UserKeys \subseteq DOMAIN fin.thresholds) =>
        LET k == FirstTrue(C3Rules(fin))
        IN  fout = [label |-> C3Labels[k], reasons |-> <<C3Reasons[k]>>]

\* rule 7 wins although rule 8 matches as well
C3_Witness ==
    /\ UserDecided
    /\ UserKeys \subseteq DOMAIN fin.thresholds
    /\ C3Rules(fin)[7] /\ C3Rules(fin)[8]
    /\ fout.label = "MODERATE_RISK"
    /\ fout.reasons = <<"Social withdrawal + mild risk">>

\* ------------------------------------------------------------------------
\* C4
\* ------------------------------------------------------------------------
\* C4: both decisions are total: whatever the metric vector, the user-level
\* decision and (given its six thresholds) the message-level decision return
\* one of the four labels together with a non-empty reasons list.
C4_DecisionsAreTotal ==
    (Decided /\ (fin.level = "user" \/ MessageKeys \subseteq DOMAIN fin.thresholds)) =>
        /\ IsDecision(fout)
        /\ fout.label \in Labels
        /\ Len(fout.reasons) >= 1

\* the fall-through case of the user-level ladder
C4_Witness ==
    /\ UserDecided
    /\ \A k \in 1..8 : UserKeys \subseteq DOMAIN fin.thresholds /\ ~C3Rules(fin)[k]
    /\ fout.label = "LOW_RISK"
    /\ Len(fout.reasons) = 1

\* ------------------------------------------------------------------------
\* C5
\* ------------------------------------------------------------------------
C5Rules(x) ==
    LET T == x.thresholds
    IN  << \/ x.p_relapse >= T["T_relapse"]
           \/ x.p_craving >= T["T_craving"]
           \/ x.risk_score >= T["T_high"],
           x.risk_score >= T["T_iso_escalate"] /\ x.p_isolation >= T["T_iso"],
           x.risk_score >= T["T_mid"],
           x.p_isolation >= T["T_iso"],
           TRUE >>

C5Labels == << "HIGH_RISK", "HIGH_RISK", "MODERATE_RISK", "ISOLATION_ONLY", "LOW_RISK" >>

\* C5: apply_fusion_v2 returns the label of the first rule of the five-rule
\* message-level order that matches; in particular HIGH_RISK whenever rule 1
\* and rule 3 both hold.
C5_MessageFirstMatchWins ==
    (MessageDecided /\ MessageKeys \subseteq DOMAIN fin.thresholds) =>
        /\ fout.label = C5Labels[FirstTrue(C5Rules(fin))]
        /\ (C5Rules(fin)[1] /\ C5Rules(fin)[3]) => fout.label = "HIGH_RISK"

\* the case risk_score = 0.9, p_relapse = 0.9, T_relapse = 0.8, T_mid = 0.3
C5_Witness ==
    /\ MessageDecided
    /\ fin.risk_score = 90 /\ fin.p_relapse = 90
    /\ fin.thresholds = ThrFull
    /\ ThrFull["T_relapse"] = 80 /\ ThrFull["T_mid"] = 30
    /\ fout.label = "HIGH_RISK"

\* ------------------------------------------------------------------------
\* C7
\* ------------------------------------------------------------------------
C7AltMedium(s) ==
    { [s EXCEPT !.max_risk_score = m, !.avg_risk_score = Exactly(a),
                !.toxic_incidents = t, !.high_risk_count = h] :
        m \in {10, 85}, a \in {10, 70}, t \in {0, 3}, h \in {0, 3} }

\* C7: the label and reasons do not depend on toxicity: a second run of the
\* decision on arguments that differ only in toxic_incidents / p_toxic (and,
\* at user level, in isolation_trend or the 30-day metrics) returns the same
\* label and reasons, and the toxic flag is p_toxic >= T_toxic.
C7_ToxicityNeverInfluencesLabel ==
    /\ UserDecided =>
          \A t \in {0, 1, 3, 5}, it \in Trends, md \in C7AltMedium(fin.short_metrics) :
             apply_final_risk_decision(
                 [fin.short_metrics EXCEPT !.toxic_incidents = t], md,
                 fin.engagement, fin.risk_trend, it, fin.thresholds) = fout
    /\ (MessageDecided /\ IsDecision(fout)) =>
          /\ \A pt \in {0, 69, 70, 100} :
                LET other == FuseMessage(fin.risk_score, fin.p_relapse, fin.p_craving,
                                         fin.p_isolation, pt, fin.thresholds)
                IN  other.label = fout.label /\ other.reasons = fout.reasons
          /\ fout.tox_flag = 1 <=> fin.p_toxic >= fin.thresholds["T_toxic"]

\* three toxic incidents, a rapid isolation decline and a 30-day maximum of
\* 0.85, and the label is still LOW_RISK
C7_Witness ==
    /\ UserDecided
    /\ fin.short_metrics.toxic_incidents = 3
    /\ fin.isolation_trend = "rapid_decline"
    /\ fin.medium_metrics.max_risk_score = 85
    /\ fin.medium_metrics # fin.short_metrics
    /\ fout.label = "LOW_RISK"

\* ------------------------------------------------------------------------
\* C1
\* ------------------------------------------------------------------------
\* C1: hysteresis.  When calls of update_user_risk_profile run one after
\* another, a call that writes the profile of a user keeps the stored
\* risk_label_since if the label it computed is the label stored before the
\* call, and sets risk_label_since to its computation time if the label
\* differs or no profile was stored.
C1_Hysteresis ==
    [][ \A u \in Users :
          user_risk_profiles'[u] # user_risk_profiles[u] =>
             LET old  == user_risk_profiles[u]
                 new  == user_risk_profiles'[u]
             IN  IF old # Absent /\ old.current_risk_label = new.current_risk_label
                 THEN new.risk_label_since = old.risk_label_since
                 ELSE new.risk_label_since = now ]_vars

\* a profile recomputed with an unchanged label, later than the label began
C1_Witness ==
    \E u \in Users :
        /\ user_risk_profiles[u] # Absent
        /\ user_risk_profiles[u].risk_label_since < user_risk_profiles[u].last_updated
        /\ call.op = "update_user_risk_profile"
        /\ call.returned.risk_label_since = user_risk_profiles[u].risk_label_since

\* ------------------------------------------------------------------------
\* C2
\* ------------------------------------------------------------------------
\* C2: the read of the stored label and the write of (current_risk_label,
\* risk_label_since) behave atomically under every interleaving of two calls
\* for one user: each write stores the pair it would store had it read the
\* row at the moment it writes (the serial order of the commits), so a call
\* that computes the label already stored never replaces risk_label_since.
C2_ReadModifyWriteAtomic ==
    [][ \A w \in Workers :
          (txn[w].pc = "selected" /\ txn'[w] = Idle) =>
             LET u   == txn[w].user_id
                 old == user_risk_profiles[u]
                 new == user_risk_profiles'[u]
             IN  /\ new.current_risk_label = txn[w].c.risk_label
                 /\ new.risk_label_since =
                       IF old # Absent /\ old.current_risk_label = txn[w].c.risk_label
                       THEN old.risk_label_since
                       ELSE txn[w].now ]_vars

\* ------------------------------------------------------------------------
\* C6
\* ------------------------------------------------------------------------
\* C6: a thresholds configuration that lacks a required user-level key makes
\* update_user_risk_profile fail: over a non-empty history it returns no
\* label and leaves the stored profiles as they were.
C6_MissingThresholdFailsFast ==
    [][ ( /\ call' # call
          /\ call'.op = "update_user_risk_profile"
          /\ ~(UserKeys \subseteq DOMAIN call'.thresholds)
          /\ get_user_messages(message_predictions, call'.user_id,
                               HistoryDays, now) # <<>> ) =>
            /\ "current_risk_label" \notin DOMAIN call'.returned
            /\ user_risk_profiles' = user_risk_profiles ]_vars

TrendDecided == fin.level = "trend" /\ fout # Pending

\* whole days between now and message i of the list under evaluation
TrendAgeDays(i) == DaysOf(fin.now - fin.messages[i].timestamp)

TrendValue(i) == fin.messages[i][fin.metric]

TrendIndices == 1..Len(fin.messages)

\* a message of the last 2 days carries a value >= 0.8
TrendHasSpike == \E i \in TrendIndices : TrendAgeDays(i) <= 2 /\ TrendValue(i) >= 80

RECURSIVE SumValues(_)
SumValues(I) ==
    IF I = {} THEN 0
    ELSE LET i == CHOOSE x \in I : TRUE IN TrendValue(i) + SumValues(I \ {i})

\* ------------------------------------------------------------------------
\* C8
\* ------------------------------------------------------------------------
\* C8: with at least 5 messages, a value >= 0.8 among the messages of the
\* last 2 days makes detect_trend return rapid_decline, whatever the two
\* window averages are.
C8_SpikeForcesRapidDecline ==
    (TrendDecided /\ Len(fin.messages) >= 5 /\ TrendHasSpike) =>
        fout.trend = "rapid_decline"

\* ------------------------------------------------------------------------
\* C9
\* ------------------------------------------------------------------------
\* C9: fewer than 5 messages always give stable.
C9_InsufficientDataIsStable ==
    (TrendDecided /\ Len(fin.messages) < 5) => fout.trend = "stable"

\* four messages, both windows filled, a spike in the last 2 days: stable
C9_Witness ==
    /\ TrendDecided
    /\ Len(fin.messages) = 4
    /\ TrendHasSpike
    /\ \E i \in TrendIndices : TrendAgeDays(i) >= 8 /\ TrendAgeDays(i) <= 14
    /\ fout.trend = "stable"

\* ------------------------------------------------------------------------
\* C10
\* ------------------------------------------------------------------------
C10Recent == {i \in TrendIndices : TrendAgeDays(i) <= 7}

C10Previous == {i \in TrendIndices : TrendAgeDays(i) >= 8 /\ TrendAgeDays(i) <= 14}

\* (recent mean - previous mean) and 0.15, both multiplied by the two counts
C10Delta ==
    SumValues(C10Recent) * Cardinality(C10Previous)
        - SumValues(C10Previous) * Cardinality(C10Recent)

C10Unit == Cardinality(C10Recent) * Cardinality(C10Previous)

\* C10: with at least 5 messages and no spike in the last 2 days, the trend
\* is stable when the recent window (age up to 7 days) or the previous
\* window (age 8 to 14 days) is empty; otherwise it is improving exactly when
\* recent mean - previous mean < -0.15, declining exactly when it is > 0.15,
\* and stable in between, the two bounds included; the windows are disjoint.
C10_TrendClassification ==
    (TrendDecided /\ Len(fin.messages) >= 5 /\ ~TrendHasSpike) =>
        /\ C10Recent \cap C10Previous = {}
        /\ (C10Recent = {} \/ C10Previous = {}) => fout.trend = "stable"
        /\ (C10Recent # {} /\ C10Previous # {}) =>
              /\ fout.trend = "improving" <=> C10Delta < (0 - 15) * C10Unit
              /\ fout.trend = "declining" <=> C10Delta > 15 * C10Unit
              /\ fout.trend = "stable" <=>
                    (C10Delta >= (0 - 15) * C10Unit /\ C10Delta <= 15 * C10Unit)

\* recent mean - previous mean is exactly 0.15: stable
C10_Witness ==
    /\ TrendDecided
    /\ Len(fin.messages) >= 5
    /\ ~TrendHasSpike
    /\ C10Recent # {} /\ C10Previous # {}
    /\ C10Delta = 15 * C10Unit
    /\ fout.trend = "stable"

\* ------------------------------------------------------------------------
\* C11, C12, C13: the two windows of one message list
\* ------------------------------------------------------------------------
WindowDecided == fin.level = "window" /\ fout # Pending

\* the messages of the list whose timestamp is at or after now - d days
WindowIndices(d) ==
    {i \in 1..Len(fin.messages) : fin.messages[i].timestamp >= fin.now - 2 * d}

\* the messages of the list that are exactly d days old
WindowAged(d) ==
    {i \in 1..Len(fin.messages) : fin.now - fin.messages[i].timestamp = 2 * d}

RECURSIVE WindowSum(_, _)
WindowSum(I, field) ==
    IF I = {} THEN 0
    ELSE LET i == CHOOSE x \in I : TRUE
         IN  fin.messages[i][field] + WindowSum(I \ {i}, field)

\* metrics m are the aggregate of the messages I and of no other message
WindowAggregates(m, I) ==
    /\ m.message_count = Cardinality(I)
    /\ I # {} =>
          /\ m.avg_risk_score = [sum |-> WindowSum(I, "risk_score"), n |-> Cardinality(I)]
          /\ m.avg_isolation = [sum |-> WindowSum(I, "p_isolation"), n |-> Cardinality(I)]
          /\ \E i \in I : m.max_risk_score = fin.messages[i].risk_score
          /\ \A i \in I : m.max_risk_score >= fin.messages[i].risk_score

\* C11: the 7-day and the 30-day metrics aggregate exactly the messages with
\* timestamp >= now - 7 days and >= now - 30 days; an older message is in
\* none of the window's metrics, a message exactly 8 days old is counted in
\* the 30-day message_count and not in the 7-day one, and the 7-day
\* message_count never exceeds the 30-day one.
C11_WindowFiltering ==
    WindowDecided =>
        /\ WindowAggregates(fout.short_metrics, WindowIndices(7))
        /\ WindowAggregates(fout.medium_metrics, WindowIndices(30))
        /\ WindowAged(8) # {} =>
              /\ fout.medium_metrics.message_count >=
                     1 + fout.short_metrics.message_count
              /\ WindowAged(8) \cap WindowIndices(7) = {}
        /\ fout.short_metrics.message_count <= fout.medium_metrics.message_count

\* messages 0.5, 7.5, 8, 30 and 30.5 days old: one in the 7-day window, four
\* in the 30-day window
C11_Witness ==
    /\ WindowDecided
    /\ Len(fin.messages) = 5
    /\ WindowAged(7) = {}
    /\ WindowAged(8) # {}
    /\ fout.short_metrics.message_count = 1
    /\ fout.medium_metrics.message_count = 4

\* the value 0 for every field, the means included
IsZeroRecord(m) ==
    /\ m.avg_risk_score.n > 0 /\ m.avg_risk_score.sum = 0
    /\ m.avg_isolation.n > 0 /\ m.avg_isolation.sum = 0
    /\ m.max_risk_score = 0
    /\ m.high_risk_count = 0
    /\ m.toxic_incidents = 0
    /\ m.message_count = 0

\* C12: a window that holds no message (the list is empty, or every message
\* is older than the window) yields the zero record.
C12_EmptyWindowIsZeroRecord ==
    WindowDecided =>
        /\ WindowIndices(7) = {} => IsZeroRecord(fout.short_metrics)
        /\ WindowIndices(30) = {} => IsZeroRecord(fout.medium_metrics)

\* a list that is not empty, with no message in the 7-day window
C12_Witness ==
    /\ WindowDecided
    /\ fin.messages # <<>>
    /\ WindowIndices(7) = {}
    /\ WindowIndices(30) # {}
    /\ IsZeroRecord(fout.short_metrics)
    /\ fout.medium_metrics.message_count > 0

C13HighRisk(I) ==
    {i \in I : \/ fin.messages[i].risk_score >= 70
               \/ fin.messages[i].p_relapse >= 50
               \/ fin.messages[i].p_craving >= 50}

C13Toxic(I) == {i \in I : fin.messages[i].p_toxic >= 70}

\* C13: high_risk_count is the number of messages of the window with
\* risk_score >= 0.7 or p_relapse >= 0.5 or p_craving >= 0.5, each counted
\* once; toxic_incidents is the number with p_toxic >= 0.7, whatever their
\* risk_score and whether or not they count as high-risk.
C13_HighRiskAndToxicCounts ==
    WindowDecided =>
        /\ fout.short_metrics.high_risk_count = Cardinality(C13HighRisk(WindowIndices(7)))
        /\ fout.short_metrics.toxic_incidents = Cardinality(C13Toxic(WindowIndices(7)))
        /\ fout.medium_metrics.high_risk_count = Cardinality(C13HighRisk(WindowIndices(30)))
        /\ fout.medium_metrics.toxic_incidents = Cardinality(C13Toxic(WindowIndices(30)))

\* in the 30-day window: a toxic message that is not high-risk, a high-risk
\* one (by p_relapse alone) that is not toxic, and one that is both
C13_Witness ==
    /\ WindowDecided
    /\ \E i, j, k \in WindowIndices(30) :
          /\ i \in C13Toxic(WindowIndices(30)) \ C13HighRisk(WindowIndices(30))
          /\ j \in C13HighRisk(WindowIndices(30)) \ C13Toxic(WindowIndices(30))
          /\ fin.messages[j].risk_score < 70 /\ fin.messages[j].p_craving < 50
          /\ k \in C13HighRisk(WindowIndices(30)) \cap C13Toxic(WindowIndices(30))
    /\ fout.medium_metrics.high_risk_count = 2
    /\ fout.medium_metrics.toxic_incidents = 2

\* ------------------------------------------------------------------------
\* C14, C15, C16: calls of the engine, one user
\* ------------------------------------------------------------------------
\* the last call returned normally
Returned(op) == "op" \in DOMAIN call /\ call.op = op /\ "returned" \in DOMAIN call

\* the last call raised
RaisedBy(op) == "op" \in DOMAIN call /\ call.op = op /\ "raised" \in DOMAIN call

\* the stored messages of user u
RowsOf(u) == {r \in message_predictions : r.user_id = u}

\* C14: when the user has no stored message of the last 30 days,
\* update_user_risk_profile returns the label LOW_RISK with the one reason
\* "No message history" and raises nothing.
C14_ZeroHistoryProfile ==
    [][\A u \in Users :
          ( /\ UpdateUserRiskProfile(u, ThrFull, NoTimestamp)
            /\ \A r \in RowsOf(u) : r.timestamp < now - 2 * 30 ) =>
          ( /\ "returned" \in DOMAIN call' /\ "raised" \notin DOMAIN call'
            /\ call'.op = "update_user_risk_profile"
            /\ call'.returned.user_id = u
            /\ call'.returned.current_risk_label = "LOW_RISK"
            /\ call'.returned.reasons = <<"No message history">> )]_vars

\* the user has a stored message, more than 30 days old
C14_Witness ==
    /\ Returned("update_user_risk_profile")
    /\ RowsOf(call.user_id) # {}
    /\ \A r \in RowsOf(call.user_id) : r.timestamp < now - 2 * 30
    /\ call.returned.current_risk_label = "LOW_RISK"
    /\ call.returned.reasons = <<"No message history">>

\* C15: for a user with messages and no buddy message among them, the
\* engagement metrics carry days_since_last_buddy_msg = 999, a number, in the
\* returned profile and in the stored one, and the call raises nothing.
C15_EngagementSentinel ==
    [][\A u \in Users :
          ( /\ UpdateUserRiskProfile(u, ThrFull, NoTimestamp)
            /\ \E r \in RowsOf(u) : r.timestamp >= now - 2 * 30
            /\ \A r \in RowsOf(u) : r.conversation_type # "buddy" ) =>
          ( /\ "returned" \in DOMAIN call' /\ "raised" \notin DOMAIN call'
            /\ call'.returned.engagement.days_since_last_buddy_msg = 999
            /\ call'.returned.engagement.days_since_last_buddy_msg \in Nat
            /\ user_risk_profiles'[u].days_since_last_buddy_msg = 999 )]_vars

\* one counselor message with mild risk: the comparison with 5 days decides
\* the label
C15_Witness ==
    /\ Returned("update_user_risk_profile")
    /\ RowsOf(call.user_id) # {}
    /\ \A r \in RowsOf(call.user_id) : r.conversation_type # "buddy"
    /\ "engagement" \in DOMAIN call.returned
    /\ call.returned.engagement.days_since_last_buddy_msg = 999
    /\ call.returned.reasons = <<"Social withdrawal + mild risk">>

\* the seven probability fields
ProbabilityFields ==
    {"p_craving", "p_relapse", "p_negative_mood", "p_neutral", "p_toxic", "p_isolation",
     "risk_score"}

\* C16: a store leaves one record for its (user_id, timestamp) and at most
\* one record for every other; when a record of that user and timestamp was
\* stored already, no record is added, the id returned is the id of that
\* record, and the record holds the message text, the seven probabilities
\* and the conversation type of this call.
C16_IdempotentStorage ==
    [][\A u \in Users, x \in OpsPayloads :
          StoreMessagePrediction(u, "text", x.predictions, x.conversation_type,
                                 NoTimestamp) =>
          LET old == {r \in RowsOf(u) : r.timestamp = now}
              new == {r \in message_predictions' : r.user_id = u /\ r.timestamp = now}
          IN  /\ Cardinality(new) = 1
              /\ \A a, b \in message_predictions' :
                    (a.user_id = b.user_id /\ a.timestamp = b.timestamp) => a = b
              /\ old # {} =>
                    /\ Cardinality(message_predictions') = Cardinality(message_predictions)
                    /\ \A r \in old : call'.returned = r.id
              /\ \A r \in new :
                    /\ r.message_text = "text"
                    /\ \A f \in ProbabilityFields : r[f] = x.predictions[f]
                    /\ r.conversation_type = x.conversation_type]_vars

\* ------------------------------------------------------------------------
\* C17, C18: the two listings
\* ------------------------------------------------------------------------
C17Priority == << "HIGH_RISK", "MODERATE_RISK", "ISOLATION_ONLY", "LOW_RISK" >>

C17Rank(label) == CHOOSE k \in 1..4 : C17Priority[k] = label

\* C17: get_all_user_profiles returns every stored profile exactly once,
\* HIGH_RISK before MODERATE_RISK before ISOLATION_ONLY before LOW_RISK, and
\* among equal labels the larger short_avg_risk_score first.
C17_ProfilesInPriorityOrder ==
    Returned("get_all_user_profiles") =>
        LET L == call.returned
        IN  /\ Len(L) = Cardinality({u \in ListUsers : user_risk_profiles[u] # Absent})
            /\ \A u \in ListUsers :
                  user_risk_profiles[u] # Absent =>
                      \E i \in 1..Len(L) :
                          /\ L[i].user_id = u
                          /\ L[i].current_risk_label =
                                 user_risk_profiles[u].current_risk_label
                          /\ L[i].short_avg_risk_score =
                                 user_risk_profiles[u].short_avg_risk_score
            /\ \A i, j \in 1..Len(L) :
                  i < j =>
                      \/ C17Rank(L[i].current_risk_label) < C17Rank(L[j].current_risk_label)
                      \/ /\ L[i].current_risk_label = L[j].current_risk_label
                         /\ L[i].short_avg_risk_score.sum * L[j].short_avg_risk_score.n >=
                                L[j].short_avg_risk_score.sum * L[i].short_avg_risk_score.n

\* two LOW_RISK profiles with averages 0.25 and 0.10, listed in that order
C17_Witness ==
    /\ Returned("get_all_user_profiles")
    /\ Len(call.returned) = 2
    /\ call.returned[1].current_risk_label = "LOW_RISK"
    /\ call.returned[2].current_risk_label = "LOW_RISK"
    /\ call.returned[1].short_avg_risk_score = [sum |-> 25, n |-> 1]
    /\ call.returned[2].short_avg_risk_score = [sum |-> 10, n |-> 1]

\* C18: get_users_needing_check_in(days_silent) returns exactly the users
\* whose stored profile has days_since_last_buddy_msg >= days_silent and a
\* label other than HIGH_RISK, each once; a user stored as HIGH_RISK is
\* never returned.
C18_CheckInSkipsHighRisk ==
    Returned("get_users_needing_check_in") =>
        LET L == call.returned
        IN  /\ {L[i] : i \in 1..Len(L)} =
                  {u \in ListUsers :
                      /\ user_risk_profiles[u] # Absent
                      /\ user_risk_profiles[u].days_since_last_buddy_msg >= call.days_silent
                      /\ user_risk_profiles[u].current_risk_label # "HIGH_RISK"}
            /\ \A i, j \in 1..Len(L) : i # j => L[i] # L[j]
            /\ \A i \in 1..Len(L) :
                  user_risk_profiles[L[i]].current_risk_label # "HIGH_RISK"

\* two users without a buddy message, one of them HIGH_RISK: the other one
\* alone is returned
C18_Witness ==
    /\ Returned("get_users_needing_check_in")
    /\ Len(call.returned) = 1
    /\ \E u \in ListUsers :
          /\ user_risk_profiles[u] # Absent
          /\ user_risk_profiles[u].current_risk_label = "HIGH_RISK"
          /\ user_risk_profiles[u].days_since_last_buddy_msg >= call.days_silent
    /\ user_risk_profiles[call.returned[1]].days_since_last_buddy_msg = 999

\* ------------------------------------------------------------------------
\* C19, C20
\* ------------------------------------------------------------------------
\* C19: a call in which a storage statement or the commit fails leaves both
\* tables as they were before the call, raises the error to the caller and
\* returns nothing.
C19_FailuresRollBack ==
    [][/\ \A u \in Users, stmt \in UpdateFailurePoints :
            UpdateUserRiskProfileFails(u, ThrFull, NoTimestamp, stmt) =>
                /\ user_risk_profiles' = user_risk_profiles
                /\ message_predictions' = message_predictions
                /\ "raised" \in DOMAIN call' /\ "returned" \notin DOMAIN call'
       /\ \A u \in Users, x \in OpsPayloads, stmt \in StoreFailurePoints :
            StoreMessagePredictionFails(u, "text", x.predictions, x.conversation_type,
                                        stmt) =>
                /\ user_risk_profiles' = user_risk_profiles
                /\ message_predictions' = message_predictions
                /\ "raised" \in DOMAIN call' /\ "returned" \notin DOMAIN call']_vars

\* the upsert of the first profile of a user ran and the commit failed: the
\* user has messages and still no profile
C19_Witness ==
    /\ RaisedBy("update_user_risk_profile")
    /\ call.at = "commit"
    /\ RowsOf(call.user_id) # {}
    /\ user_risk_profiles[call.user_id] = Absent

\* C20: every stored message has its seven probability fields between 0.0
\* and 1.0, and so has the maximum a stored profile was decided from.
C20_StoredProbabilitiesInRange ==
    /\ \A r \in message_predictions :
          \A f \in ProbabilityFields : r[f] >= 0 /\ r[f] <= 100
    /\ \A u \in Users :
          user_risk_profiles[u] # Absent =>
              user_risk_profiles[u].short_max_risk_score <= 100

\* ------------------------------------------------------------------------
\* C21
\* ------------------------------------------------------------------------
\* the largest of three numbers
C21Max(a, b, c) == CHOOSE m \in {a, b, c} : m >= a /\ m >= b /\ m >= c

\* C21: every stored message has risk_score = max(p_relapse, p_craving,
\* w * p_negative_mood) for the configured weight w, whether the vector came
\* from analyze_message or from a caller whose dict has no risk_score.
C21_StoredRiskScoreIsFusionMax ==
    \A r \in message_predictions :
        100 * r.risk_score =
            C21Max(100 * r.p_relapse, 100 * r.p_craving, neg_weight * r.p_negative_mood)

\* ------------------------------------------------------------------------
\* C27
\* ------------------------------------------------------------------------
\* C27: a log_intervention that succeeds adds exactly one record, for its
\* user and with the outcome given ('pending' when none is given), and
\* changes no other intervention, no profile and no message; one for a user
\* without a stored profile fails and adds nothing; and after every step each
\* stored intervention belongs to a user that has a stored profile.
C27_InterventionsAppendOnly ==
    [][/\ \A u \in Users, outcome \in {"pending", "engaged"} :
            LogIntervention(u, "buddy_nudge", "HIGH_RISK", "{}", outcome) =>
                /\ user_risk_profiles' = user_risk_profiles
                /\ message_predictions' = message_predictions
                /\ interventions.rows \subseteq interventions'.rows
                /\ IF user_risk_profiles[u] # Absent
                   THEN /\ Cardinality(interventions'.rows) =
                              Cardinality(interventions.rows) + 1
                        /\ \A r \in interventions'.rows \ interventions.rows :
                              /\ r.user_id = u
                              /\ r.outcome = outcome
                              /\ r.id = call'.returned
                              /\ \A x \in interventions.rows : x.id # r.id
                   ELSE /\ interventions'.rows = interventions.rows
                        /\ "raised" \in DOMAIN call'
       /\ \A r \in interventions'.rows : user_risk_profiles'[r.user_id] # Absent
       /\ interventions.rows \subseteq interventions'.rows]_vars

\* a user whose only recomputation gave the zero-history result has no
\* stored profile: the intervention for it is refused
C27_Witness ==
    /\ RaisedBy("log_intervention")
    /\ user_risk_profiles[call.user_id] = Absent
    /\ RowsOf(call.user_id) = {}
    /\ interventions.rows = {}
    /\ interventions.next_id > 1

\* ------------------------------------------------------------------------
\* C22
\* ------------------------------------------------------------------------
\* the three tables
Tables == <<message_predictions, user_risk_profiles, interventions>>

\* C22: every round trip of update_user_risk_profile(a) works on a's data
\* alone: what it computes is what a's own messages give, what it reads is
\* a's profile, and what it writes is a's profile, decided from what it read
\* and computed; the profile of every other user, all messages, all
\* interventions and the other worker's recomputation stay as they are.
C22_UsersAreIndependent ==
    [][\A w \in Workers, a \in ListUsers :
          /\ ConcCompute(w, a, ThrFull, NoTimestamp) =>
                /\ Tables' = Tables
                /\ \A v \in Workers \ {w} : txn'[v] = txn[v]
                /\ txn'[w] # Idle =>
                      txn'[w].c = ComputeProfile(a,
                                      get_user_messages(RowsOf(a), a, 30, now), ThrFull, now)
          /\ (ConcSelect(w) /\ txn[w].user_id = a) =>
                /\ Tables' = Tables
                /\ \A v \in Workers \ {w} : txn'[v] = txn[v]
                /\ txn'[w].existing = user_risk_profiles[a]
                /\ txn'[w].c = txn[w].c
          /\ (ConcUpsert(w) /\ txn[w].user_id = a) =>
                /\ message_predictions' = message_predictions
                /\ interventions' = interventions
                /\ \A b \in ListUsers \ {a} :
                      user_risk_profiles'[b] = user_risk_profiles[b]
                /\ \A v \in Workers \ {w} : txn'[v] = txn[v]
                /\ user_risk_profiles'[a].current_risk_label = txn[w].c.risk_label
                /\ user_risk_profiles'[a].short_avg_risk_score =
                       txn[w].c.short_metrics.avg_risk_score
                /\ call'.returned.user_id = a]_vars

\* the recomputation of one user is between its SELECT and its upsert while
\* the other user, with messages of its own, has just got its profile
C22_Witness ==
    /\ Returned("update_user_risk_profile")
    /\ \E w \in Workers :
          /\ txn[w].pc = "selected"
          /\ txn[w].user_id # call.user_id
          /\ txn[w].c.risk_label # call.returned.current_risk_label
    /\ user_risk_profiles[call.user_id] # Absent
    /\ interventions.rows # {}

\* ------------------------------------------------------------------------
\* C23, C24, C25
\* ------------------------------------------------------------------------
\* C23: an update_user_risk_profile(u) call that returns the label L leaves
\* the stored profile of u, when u has one, with current_risk_label = L; the
\* call made after all messages of u have left the 30-day range, which
\* returns the zero-history LOW_RISK profile, is one of these calls.
C23_ReturnedLabelIsStoredLabel ==
    [][\A u \in Users :
          UpdateUserRiskProfile(u, ThrFull, NoTimestamp) =>
              (user_risk_profiles'[u] # Absent =>
                  user_risk_profiles'[u].current_risk_label =
                      call'.returned.current_risk_label)]_vars

\* the buddy messages of u that get_user_messages hands over at this moment
C24BuddyRows(u) ==
    {r \in RowsOf(u) : r.timestamp >= now - 2 * 30 /\ r.conversation_type = "buddy"}

\* C24: when the 30-day message list of the user holds a buddy message,
\* days_since_last_buddy_msg is the whole number of days from the latest
\* buddy message to now; it is 999 only when the list holds none.
C24_DaysSinceLatestBuddyMessage ==
    [][\A u \in Users, T \in EngineThresholds :
          ( /\ UpdateUserRiskProfile(u, T, NoTimestamp)
            /\ C24BuddyRows(u) # {} ) =>
          ( /\ call'.returned.engagement.days_since_last_buddy_msg # 999
            /\ \E r \in C24BuddyRows(u) :
                  /\ \A x \in C24BuddyRows(u) : x.timestamp <= r.timestamp
                  /\ call'.returned.engagement.days_since_last_buddy_msg =
                         (now - r.timestamp) \div 2 )]_vars

\* C25: in every computed profile the engagement count total_messages_7d
\* equals the message_count of the 7-day window: the two select the same
\* messages.
C25_SevenDaySelectionsAgree ==
    (Returned("update_user_risk_profile") /\ "engagement" \in DOMAIN call.returned) =>
        call.returned.engagement.total_messages_7d =
            call.returned.short_window.message_count

\* ------------------------------------------------------------------------
\* C26
\* ------------------------------------------------------------------------
\* C26: the get_user_risk endpoint answers every request with status 200 and
\* a body carrying all fields of UserRiskProfile; for a user with no stored
\* message the body is the LOW_RISK profile.
C26_ZeroHistoryIsCompleteProfile ==
    (call # Pending /\ call.op = "get_user_risk") =>
        /\ call.response.status = 200
        /\ (RowsOf(call.user_id) = {} =>
               call.response.body.current_risk_label = "LOW_RISK")

\* ------------------------------------------------------------------------
\* C29
\* ------------------------------------------------------------------------
\* C29: over any calls of get_analyzer, overlapping ones included,
\* RiskAnalyzer is constructed at most once and every call returns that one
\* instance.
C29_AnalyzerBuiltOnce ==
    /\ analyzer.built <= 1
    /\ (Returned("get_analyzer") => call.returned = 1)

\* ------------------------------------------------------------------------
\* C28
\* ------------------------------------------------------------------------
\* C28: every connection get_cursor takes is put back when the with-block
\* ends, however it ends: when no thread is inside get_cursor no connection
\* is checked out, and never more than max_conn are.
C28_NoConnectionLeak ==
    /\ pool <= MaxConn
    /\ ((\A th \in PoolThreads : txn[th] = Idle) => pool = 0)

\* ------------------------------------------------------------------------
\* C30
\* ------------------------------------------------------------------------
\* the text has a character that is not whitespace
C30NonBlank(text) == \E i \in 1..Len(text) : text[i] \notin Whitespace

\* msg is text without the whitespace around it
C30Trimmed(text, msg) ==
    /\ msg # <<>>
    /\ msg[1] \notin Whitespace
    /\ msg[Len(msg)] \notin Whitespace
    /\ \E a \in 0..Len(text) :
          /\ a + Len(msg) <= Len(text)
          /\ \A i \in 1..Len(text) :
                IF i > a /\ i <= a + Len(msg) THEN text[i] = msg[i - a]
                ELSE text[i] \in Whitespace

\* the outputs of the two models and the risk score for one message
C30Outputs(msg) == analyze_message(predict_risk_probs(msg), predict_iso_prob(msg))

\* message-level rule 1 on the outputs of one message
C30Rule1(msg) ==
    LET o == C30Outputs(msg)
    IN  \/ o.p_relapse >= ThrFull.T_relapse
        \/ o.p_craving >= ThrFull.T_craving
        \/ o.risk_score >= ThrFull.T_high

\* C30: an Analyze click with non-blank text leaves in the history the
\* submitted message last, before it the latest messages of the old history in
\* their order, at most ROLLING_WINDOW_SIZE = 5 in all; the decision shown is
\* HIGH_RISK when a message of this window satisfies message-level rule 1;
\* a click with blank text changes nothing; Clear conversation empties the
\* history.
C30_RollingWindow ==
    [][ /\ \A text \in DemoInputs :
             AnalyzeClick(text) =>
                IF C30NonBlank(text)
                THEN /\ Len(history') = IF Len(history) < 5 THEN Len(history) + 1 ELSE 5
                     /\ C30Trimmed(text, history'[Len(history')])
                     /\ \A i \in 1..(Len(history') - 1) :
                           history'[i] = history[i + Len(history) + 1 - Len(history')]
                     /\ ((\E i \in 1..Len(history') : C30Rule1(history'[i]))
                            => call'.label = "HIGH_RISK")
                     /\ \A i \in 1..Len(history') :
                           /\ C30Outputs(history'[i]).risk_score
                                  <= call'.rolling_risk_score
                           /\ C30Outputs(history'[i]).p_isolation
                                  <= call'.rolling_p_isolation
                     /\ \E i \in 1..Len(history') :
                           C30Outputs(history'[i]).risk_score = call'.rolling_risk_score
                     /\ \E i \in 1..Len(history') :
                           C30Outputs(history'[i]).p_isolation = call'.rolling_p_isolation
                ELSE history' = history
        /\ (ClearConversation => history' = <<>>) ]_vars

\* the window is full, its oldest message alone satisfies rule 1, and the
\* decision shown for it is HIGH_RISK
C30_Witness ==
    /\ Len(history) = 5
    /\ C30Rule1(history[1])
    /\ \A i \in 2..5 : ~C30Rule1(history[i])
    /\ call.op = "analyze"
    /\ "label" \in DOMAIN call
    /\ call.label = "HIGH_RISK"

====
